---- MODULE Spec2Model ----
(***************************************************************************)
(* The asynchronous task-lifecycle pipeline of TaskFlow-API: the producer  *)
(* operations of TasksService (create, update, remove, batchUpdateStatus), *)
(* the 'task-processing' queue with its retry policy, the worker           *)
(* (TaskProcessorService) that executes 'task-status-update' jobs, and the *)
(* hourly tick (OverdueTasksService) with the overdue sweep it starts.     *)
(*                                                                         *)
(* Spec is the service with its producers and the worker (OwnerSpec: on   *)
(* the task of another user).  WorkerSpec, RaceSpec and PoolSpec are the   *)
(* worker on a queue that already holds jobs, SweepSpec is the tick and    *)
(* the sweep on a store with a fixed overdue set, RepeatSpec is tick after *)
(* tick on a small store whose users are kept row by row, and ChurnSpec is *)
(* the sweep on a table that changes while it runs.  RetrySpec is a sweep  *)
(* job with one or three attempts, BusySpec the timer beside a worker      *)
(* whose slots are all taken, StalledSpec the worker with four handlers    *)
(* that never return, and TwiceSpec the worker on one job delivered twice. *)
(*                                                                         *)
(* Every await of the source is a step boundary: between two steps of one  *)
(* call any step of another call or of the worker may happen.  A store or  *)
(* queue operation can succeed or fail (the database / Redis is down).     *)
(***************************************************************************)
EXTENDS Integers, Sequences, FiniteSets, TLC

\* ---- bounds of the model ----
\* With every bound at 1 each operation runs against the worker and every job
\* goes through all its attempts; one higher, two calls and two jobs interleave.
MaxTasks == 1     \* task ids the store can hand out
MaxCalls == 1     \* service calls begun in one behaviour
MaxJobs  == 1     \* jobs ever added to the queue in one behaviour
MaxOverdue == 250 \* rows the overdue filter matches, at most
MaxRows  == 3     \* matching rows of a store whose users are kept row by row
MaxChurn == 1     \* rows that enter or leave the overdue set during a sweep

\* ---- program constants ----
Concurrency     == 5      \* @Processor('task-processing', { concurrency: 5 })
JobAttempts     == 3      \* { attempts: 3, ... } at every add of a status job
BackoffDelay    == 1000   \* backoff: { type: 'exponential', delay: 1000 } (ms)
SweepAttempts   == 1      \* { attempts: 1, ... } at the add of the sweep job
BatchSize       == 100    \* const batchSize = 100 in handleOverdueTasks

TaskStatus == {"pending", "in_progress", "completed"}
Users      == {"u1", "adm"}
IsAdmin(u) == u = "adm"

\* the status TasksController.batchProcess passes to batchUpdateStatus
BatchStatus == {"completed"}

\* ids a client can name in a request: the ids the store hands out (1..MaxTasks)
\* and one id that never names a row
TaskIds    == 1..MaxTasks
RequestIds == 0..MaxTasks

NoTask == [status |-> "none", userId |-> "none"]

\* the taskId of a payload that has none
NoId == -1

\* the overdue set as it was at the start: no row has entered or left it
NoChurn == [added |-> 0, removed |-> {}]

VARIABLES
    tasks,      \* committed rows of the task table: id -> [status, userId]
    nextId,     \* next id the store generates
    committed,  \* ids whose creating transaction committed (history)
    calls,      \* service calls, in the order they began
    jobs,       \* jobs of the queue, in the order they were added
    overdue,    \* number of rows the overdue filter of the sweep matches
    sweep,      \* locals of handleOverdueTasks, per sweep job that was started
    rows,       \* rows that entered / left the overdue set since the start
    users,      \* row id -> [email, deliverable] of the task's user, where kept
    outbox      \* sweep job -> the sendMail calls of its handler (history)

vars == <<tasks, nextId, committed, calls, jobs, overdue, sweep, rows, users,
          outbox>>

\* ---- helpers ----
RECURSIVE SumSeq(_, _)
SumSeq(f(_), s) == IF s = <<>> THEN 0 ELSE f(Head(s)) + SumSeq(f, Tail(s))

\* adds a call in flight may still perform
PotentialAdds(c) ==
    CASE c.op = "create" /\ c.pc = "add"            -> 1
      [] c.op = "update" /\ c.pc \in {"save", "add"} -> 1
      [] c.op = "batch"                               -> Cardinality(c.pending)
      [] OTHER                                        -> 0

JobRoom == MaxJobs - Len(jobs) - SumSeq(PotentialAdds, calls)

JobsOf(c) == {j \in DOMAIN jobs : jobs[j].src = c}

\* a call record
Call(op, user) ==
    [op |-> op, pc |-> "done", user |-> user, id |-> 0, ids |-> {},
     task |-> NoTask, origStatus |-> "none", saved |-> FALSE,
     pending |-> {}, affected |-> {}, result |-> "none", failedAt |-> "none"]

\* a call whose first store operation threw: it ends with that error and has
\* had no effect
Rejected(op, at) ==
    [Call(op, "none") EXCEPT !.result = "error", !.failedAt = at]

\* defaultJobOptions of the 'task-processing' queue: what becomes of a job
\* that completed and of a job that failed for good
DefaultJobOptions == [removeOnComplete |-> TRUE, removeOnFail |-> FALSE]

\* Queue.add(name, data, opts): the job as it enters the queue.  delay is the
\* backoff delay of the last failed attempt and waited the time gone by since;
\* error is the class of the error the job failed for good with; removed
\* tells that the queue has deleted the job.
NewJob(name, taskId, status, attempts, src) ==
    [name |-> name, taskId |-> taskId, status |-> status,
     attemptsMade |-> 0, maxAttempts |-> attempts,
     removeOnComplete |-> DefaultJobOptions.removeOnComplete,
     removeOnFail |-> DefaultJobOptions.removeOnFail,
     state |-> "waiting", task |-> NoTask, src |-> src,
     delay |-> 0, waited |-> 0, error |-> "", removed |-> FALSE]

\* the service starts on a store that is empty or already holds a task
Init ==
    /\ \E n \in {0, 1} :
         /\ tasks = [i \in 1..n |-> [status |-> "pending", userId |-> "u1"]]
         /\ nextId = n + 1
         /\ committed = 1..n
    /\ calls = <<>>
    /\ jobs = <<>>
    /\ overdue = 0
    /\ sweep = <<>>
    /\ rows = NoChurn /\ users = <<>> /\ outbox = <<>>

\* ---- TasksService.create ----
\* transaction begins; entity created with the caller's userId and saved
CreateSave(u, st) ==
    /\ Len(calls) < MaxCalls
    /\ nextId <= MaxTasks
    /\ JobRoom >= 1
    /\ \E ok \in BOOLEAN :
         IF ok
         THEN /\ calls' = Append(calls, [Call("create", u) EXCEPT
                              !.pc = "add", !.id = nextId,
                              !.task = [status |-> st, userId |-> u]])
              /\ nextId' = nextId + 1
         ELSE /\ calls' = Append(calls, Rejected("create", "save"))
              /\ nextId' = nextId
    /\ UNCHANGED <<rows, users, outbox, overdue, sweep, tasks, committed, jobs>>

\* (mutation of CreatePayloadStatus: the payload carries the entity default
\* instead of the saved status)
CreatePayloadStatus_Default(savedTask) == "pending"

\* status: savedTask.status
CreatePayloadStatus(savedTask) == savedTask.status

\* (mutation of CreateAdd: the rejected add is swallowed and the transaction
\* goes on to commit)
CreateAdd_SwallowsError(c) ==
    /\ calls[c].op = "create" /\ calls[c].pc = "add"
    /\ \E ok \in BOOLEAN :
         IF ok
         THEN /\ jobs' = Append(jobs, NewJob("task-status-update", calls[c].id,
                              CreatePayloadStatus(calls[c].task), JobAttempts, c))
              /\ calls' = [calls EXCEPT ![c].pc = "commit"]
         ELSE /\ jobs' = jobs
              /\ calls' = [calls EXCEPT ![c].pc = "commit", ![c].failedAt = "add"]
    /\ UNCHANGED <<rows, users, outbox, overdue, sweep, tasks, nextId, committed>>

\* await this.taskQueue.add('task-status-update', {taskId, status}, ...)
\* inside the transaction callback; a rejected add rolls the transaction back
CreateAdd(c) ==
    /\ calls[c].op = "create" /\ calls[c].pc = "add"
    /\ \E ok \in BOOLEAN :
         IF ok
         THEN /\ jobs' = Append(jobs, NewJob("task-status-update", calls[c].id,
                              CreatePayloadStatus(calls[c].task), JobAttempts, c))
              /\ calls' = [calls EXCEPT ![c].pc = "commit"]
         ELSE /\ jobs' = jobs
              /\ calls' = [calls EXCEPT ![c].pc = "done", ![c].result = "error",
                                        ![c].failedAt = "add"]
    /\ UNCHANGED <<rows, users, outbox, overdue, sweep, tasks, nextId, committed>>

\* the callback returned: the transaction commits, or the commit fails
CreateCommit(c) ==
    /\ calls[c].op = "create" /\ calls[c].pc = "commit"
    /\ \E ok \in BOOLEAN :
         IF ok
         THEN /\ tasks' = (calls[c].id :> calls[c].task) @@ tasks
              /\ committed' = committed \cup {calls[c].id}
              /\ calls' = [calls EXCEPT ![c].pc = "done", ![c].result = "ok",
                                        ![c].saved = TRUE]
         ELSE /\ tasks' = tasks
              /\ committed' = committed
              /\ calls' = [calls EXCEPT ![c].pc = "done", ![c].result = "error",
                                        ![c].failedAt = "commit"]
    /\ UNCHANGED <<rows, users, outbox, overdue, sweep, nextId, jobs>>

\* ---- TasksService.findOne ----
\* the row a caller may see: { id } plus { userId } unless admin
Visible(u, id) ==
    /\ id \in DOMAIN tasks
    /\ (IsAdmin(u) \/ tasks[id].userId = u)

\* ---- TasksService.update ----
\* repository.merge(task, dto): a defined dto field overwrites the entity's
Merge(task, dtoStatus) ==
    IF dtoStatus = "none" THEN task ELSE [task EXCEPT !.status = dtoStatus]

\* const task = await this.findOne(...); originalStatus = task.status; merge
UpdateFind(u, id, dtoStatus) ==
    /\ Len(calls) < MaxCalls
    /\ JobRoom >= 1
    /\ IF Visible(u, id)
       THEN calls' = Append(calls, [Call("update", u) EXCEPT
                        !.pc = "save", !.id = id,
                        !.origStatus = tasks[id].status,
                        !.task = Merge(tasks[id], dtoStatus)])
       ELSE calls' = Append(calls, Rejected("update", "find"))
    /\ UNCHANGED <<rows, users, outbox, overdue, sweep, tasks, nextId, committed, jobs>>

\* (mutation of StatusChanged: the naive "always enqueue")
StatusChanged_Always(original, updated) == TRUE

\* the status comparison that decides whether update enqueues a job
StatusChanged(original, updated) == original # updated

\* const updatedTask = await this.tasksRepository.save(task); the comparison
\* of the statuses follows without an await
UpdateSave(c) ==
    /\ calls[c].op = "update" /\ calls[c].pc = "save"
    /\ \E ok \in BOOLEAN :
         IF ok
         THEN /\ tasks' = (calls[c].id :> calls[c].task) @@ tasks
              /\ calls' = IF StatusChanged(calls[c].origStatus, calls[c].task.status)
                          THEN [calls EXCEPT ![c].pc = "add", ![c].saved = TRUE]
                          ELSE [calls EXCEPT ![c].pc = "done", ![c].saved = TRUE,
                                             ![c].result = "ok"]
         ELSE /\ tasks' = tasks
              /\ calls' = [calls EXCEPT ![c].pc = "done", ![c].result = "error",
                                        ![c].failedAt = "save"]
    /\ UNCHANGED <<rows, users, outbox, overdue, sweep, nextId, committed, jobs>>

\* await this.taskQueue.add('task-status-update', {taskId, status}, ...)
UpdateAdd(c) ==
    /\ calls[c].op = "update" /\ calls[c].pc = "add"
    /\ \E ok \in BOOLEAN :
         IF ok
         THEN /\ jobs' = Append(jobs, NewJob("task-status-update", calls[c].id,
                                             calls[c].task.status, JobAttempts, c))
              /\ calls' = [calls EXCEPT ![c].pc = "done", ![c].result = "ok"]
         ELSE /\ jobs' = jobs
              /\ calls' = [calls EXCEPT ![c].pc = "done", ![c].result = "error",
                                        ![c].failedAt = "add"]
    /\ UNCHANGED <<rows, users, outbox, overdue, sweep, tasks, nextId, committed>>

\* ---- TasksService.remove ----
RemoveFind(u, id) ==
    /\ Len(calls) < MaxCalls
    /\ IF Visible(u, id)
       THEN calls' = Append(calls, [Call("remove", u) EXCEPT
                        !.pc = "delete", !.id = id])
       ELSE calls' = Append(calls, Rejected("remove", "find"))
    /\ UNCHANGED <<rows, users, outbox, overdue, sweep, tasks, nextId, committed, jobs>>

RemoveDelete(c) ==
    /\ calls[c].op = "remove" /\ calls[c].pc = "delete"
    /\ \E ok \in BOOLEAN :
         IF ok
         THEN /\ tasks' = [i \in DOMAIN tasks \ {calls[c].id} |-> tasks[i]]
              /\ calls' = [calls EXCEPT ![c].pc = "done", ![c].result = "ok"]
         ELSE /\ tasks' = tasks
              /\ calls' = [calls EXCEPT ![c].pc = "done", ![c].result = "error",
                                        ![c].failedAt = "delete"]
    /\ UNCHANGED <<rows, users, outbox, overdue, sweep, nextId, committed, jobs>>

\* ---- TasksService.batchUpdateStatus ----
\* rows matched by { id: In(taskIds) } plus { userId } unless admin
Affected(u, ids) == {i \in ids : Visible(u, i)}

\* the ids the loop after the store update calls taskQueue.add for
BatchJobIds(ids, affected) == ids

\* await repository.update(where, {status}); then, without awaiting any of
\* them, one taskQueue.add per id; then the result is returned
BatchUpdate(u, ids, st) ==
    /\ Len(calls) < MaxCalls
    /\ JobRoom >= Cardinality(ids)
    /\ \E ok \in BOOLEAN :
         IF ok
         THEN /\ tasks' = [i \in DOMAIN tasks |->
                             IF i \in Affected(u, ids)
                             THEN [tasks[i] EXCEPT !.status = st] ELSE tasks[i]]
              /\ calls' = Append(calls, [Call("batch", u) EXCEPT
                              !.pc = "adds", !.ids = ids,
                              !.affected = Affected(u, ids),
                              !.task = [status |-> st, userId |-> "none"],
                              !.pending = BatchJobIds(ids, Affected(u, ids)),
                              !.saved = TRUE, !.result = "ok"])
         ELSE /\ tasks' = tasks
              /\ calls' = Append(calls, Rejected("batch", "save"))
    /\ UNCHANGED <<rows, users, outbox, overdue, sweep, nextId, committed, jobs>>

Min(S) == CHOOSE x \in S : \A y \in S : x <= y

\* one of the un-awaited add promises settles (in the order the adds were
\* issued on the connection); a rejection reaches nobody
BatchAddSettle(c) ==
    /\ calls[c].op = "batch" /\ calls[c].pc = "adds"
    /\ LET id   == Min(calls[c].pending)
           rest == calls[c].pending \ {id}
       IN /\ \E ok \in BOOLEAN :
               jobs' = IF ok
                       THEN Append(jobs, NewJob("task-status-update", id,
                                                calls[c].task.status, JobAttempts, c))
                       ELSE jobs
          /\ calls' = [calls EXCEPT ![c].pending = rest,
                                    ![c].pc = IF rest = {} THEN "done" ELSE "adds"]
    /\ UNCHANGED <<rows, users, outbox, overdue, sweep, tasks, nextId, committed>>

\* ---- the worker of 'task-processing' ----
Active == {j \in DOMAIN jobs : jobs[j].state \in {"active", "saving"}}

\* (mutation of Backoff: a fixed delay instead of an exponential one)
Backoff_Fixed(attemptsMade) == BackoffDelay

\* backoff: { type: 'exponential', delay: 1000 }: the delay before the retry
\* that follows the attemptsMade-th failed attempt
Backoff(attemptsMade) == BackoffDelay * 2 ^ (attemptsMade - 1)

\* (mutation of Unrecoverable: a missing task is dropped instead of retried)
Unrecoverable_NotFoundToo(err) ==
    err \in {"UnrecoverableError", "NotFoundException"}

\* (mutation of Unrecoverable: the class of the error is not looked at)
Unrecoverable_Never(err) == FALSE

\* process's catch: error instanceof UnrecoverableError
Unrecoverable(err) == err = "UnrecoverableError"

\* (mutation of Failed: the attempts bound is off by one)
Failed_OffByOne(job, err) ==
    LET made == job.attemptsMade + 1
    IN  IF Unrecoverable(err) \/ made > job.maxAttempts
        THEN [job EXCEPT !.attemptsMade = made, !.state = "failed",
                         !.task = NoTask, !.error = err,
                         !.removed = job.removeOnFail]
        ELSE [job EXCEPT !.attemptsMade = made, !.state = "delayed",
                         !.task = NoTask,
                         !.delay = Backoff(made), !.waited = 0]

\* (mutation of Failed: a failed attempt is not counted)
Failed_NotCounted(job, err) ==
    IF Unrecoverable(err)
    THEN [job EXCEPT !.attemptsMade = @ + 1, !.state = "failed",
                     !.task = NoTask, !.error = err,
                     !.removed = job.removeOnFail]
    ELSE [job EXCEPT !.state = "delayed", !.task = NoTask,
                     !.delay = BackoffDelay, !.waited = 0]

\* (mutation of Failed: a job that failed for good is deleted)
Failed_Dropped(job, err) ==
    LET made == job.attemptsMade + 1
    IN  IF Unrecoverable(err) \/ made >= job.maxAttempts
        THEN [job EXCEPT !.attemptsMade = made, !.state = "failed",
                         !.task = NoTask, !.error = err,
                         !.removed = TRUE]
        ELSE [job EXCEPT !.attemptsMade = made, !.state = "delayed",
                         !.task = NoTask,
                         !.delay = Backoff(made), !.waited = 0]

\* the attempt threw err (process rethrows every error): the queue counts the
\* attempt; after an UnrecoverableError or once the attempts are used up the
\* job has failed for good and is kept or deleted as removeOnFail says, else
\* it is delayed by the backoff for a retry
Failed(job, err) ==
    LET made == job.attemptsMade + 1
    IN  IF Unrecoverable(err) \/ made >= job.maxAttempts
        THEN [job EXCEPT !.attemptsMade = made, !.state = "failed",
                         !.task = NoTask, !.error = err,
                         !.removed = job.removeOnFail]
        ELSE [job EXCEPT !.attemptsMade = made, !.state = "delayed",
                         !.task = NoTask,
                         !.delay = Backoff(made), !.waited = 0]

\* (mutation of Completed: only failed attempts are counted)
Completed_NotCounted(job) ==
    [job EXCEPT !.state = "completed", !.task = NoTask,
                !.removed = job.removeOnComplete]

\* (mutation of Completed: a completed job stays in the queue)
Completed_Kept(job) ==
    [job EXCEPT !.attemptsMade = job.attemptsMade + 1, !.state = "completed",
                !.task = NoTask]

\* the attempt returned: the queue counts it, and the job is completed and
\* kept or deleted as removeOnComplete says
Completed(job) ==
    [job EXCEPT !.attemptsMade = job.attemptsMade + 1, !.state = "completed",
                !.task = NoTask, !.removed = job.removeOnComplete]

\* handleOverdueTasks before its loop: offset = 0, totalOverdueProcessed = 0;
\* first, count and idx describe the page in hand (rows first .. first+count-1,
\* idx of them gone through), fetched lists the pages asked for so far with
\* the rows each brought, mail is the last notification attempt and mailFailed
\* tells that a sendMail threw; view is the overdue set as the store had it
\* when it answered for the page in hand
NoMail == [row |-> 0, hasEmail |-> FALSE, sent |-> FALSE]

SweepLocals ==
    [offset |-> 0, total |-> 0, first |-> 1, count |-> 0, idx |-> 0,
     fetched |-> <<>>, mail |-> NoMail, mailFailed |-> FALSE, returned |-> FALSE,
     view |-> NoChurn]

\* (mutation of JobStart: the worker takes a waiting job whether or not a slot
\* is free)
JobStart_NoLimit(j) ==
    /\ jobs[j].state = "waiting"
    /\ jobs' = [jobs EXCEPT ![j].state = "active"]
    /\ sweep' = IF jobs[j].name = "overdue-tasks-notification"
                THEN (j :> SweepLocals) @@ sweep
                ELSE sweep
    /\ outbox' = IF jobs[j].name = "overdue-tasks-notification"
                 THEN outbox @@ (j :> <<>>)
                 ELSE outbox
    /\ UNCHANGED <<rows, users, overdue, tasks, nextId, committed, calls>>

\* (mutation of JobStart: the worker takes a job only when no handler at all
\* is running, so one handler that does not return holds every slot)
JobStart_OneAtATime(j) ==
    /\ jobs[j].state = "waiting"
    /\ Cardinality(Active) < 1
    /\ jobs' = [jobs EXCEPT ![j].state = "active"]
    /\ sweep' = IF jobs[j].name = "overdue-tasks-notification"
                THEN (j :> SweepLocals) @@ sweep
                ELSE sweep
    /\ outbox' = IF jobs[j].name = "overdue-tasks-notification"
                 THEN outbox @@ (j :> <<>>)
                 ELSE outbox
    /\ UNCHANGED <<rows, users, overdue, tasks, nextId, committed, calls>>

\* a free slot of the worker takes a waiting job and calls process, which runs
\* up to the first await of the job's handler
JobStart(j) ==
    /\ jobs[j].state = "waiting"
    /\ Cardinality(Active) < Concurrency
    /\ jobs' = [jobs EXCEPT ![j].state = "active"]
    /\ sweep' = IF jobs[j].name = "overdue-tasks-notification"
                THEN (j :> SweepLocals) @@ sweep
                ELSE sweep
    /\ outbox' = IF jobs[j].name = "overdue-tasks-notification"
                 THEN outbox @@ (j :> <<>>)
                 ELSE outbox
    /\ UNCHANGED <<rows, users, overdue, tasks, nextId, committed, calls>>

\* (mutation of PayloadError: the fields are not checked for presence)
PayloadError_EnumOnly(job) ==
    job.status \notin TaskStatus

\* (mutation of PayloadError: the status is not checked against the enum)
PayloadError_NoEnumCheck(job) ==
    job.taskId \notin Nat \/ job.status = ""

\* handleStatusUpdate's checks of the payload, before any store call: a field
\* is missing (!taskId || !status), or the status is no member of the enum.
\* Task ids are non-empty strings in the source; the ids of RequestIds stand
\* for such strings, and a payload without taskId carries NoId.
PayloadError(job) ==
    \/ job.taskId \notin Nat \/ job.status = ""
    \/ job.status \notin TaskStatus

\* (mutation of FindError: the switch has no default case of its own, a job
\* of any other name goes to handleStatusUpdate)
FindError_NoDefault(job, ok) ==
    IF job.name = "overdue-tasks-notification" THEN "UnrecoverableError"
    ELSE IF PayloadError(job) THEN "UnrecoverableError"
    ELSE IF ~ok THEN "Error"
    ELSE IF job.taskId \notin DOMAIN tasks THEN "NotFoundException"
    ELSE ""

\* what the attempt throws before its save, "" when it throws nothing:
\* process's switch on job.name, handleStatusUpdate's checks, then findOne
FindError(job, ok) ==
    IF job.name # "task-status-update" THEN "UnrecoverableError"
    ELSE IF PayloadError(job) THEN "UnrecoverableError"
    ELSE IF ~ok THEN "Error"
    ELSE IF job.taskId \notin DOMAIN tasks THEN "NotFoundException"
    ELSE ""

\* process -> handleStatusUpdate -> tasksService.updateStatus: findOne
JobFind(j) ==
    /\ jobs[j].state = "active"
    /\ jobs[j].name # "overdue-tasks-notification"
    /\ \E ok \in BOOLEAN :
         LET err == FindError(jobs[j], ok)
         IN  jobs' = IF err = ""
                     THEN [jobs EXCEPT ![j].state = "saving",
                                       ![j].task = tasks[jobs[j].taskId]]
                     ELSE [jobs EXCEPT ![j] = Failed(jobs[j], err)]
    /\ UNCHANGED <<rows, users, outbox, overdue, sweep, tasks, nextId, committed, calls>>

\* (mutation of JobSave: the handler moves the task one status on from the
\* status it read, towards the status of the payload, and does not set it)
JobSave_Advances(j) ==
    /\ jobs[j].state = "saving"
    /\ \E ok \in BOOLEAN :
         IF ok
         THEN /\ tasks' = (jobs[j].taskId :>
                             [jobs[j].task EXCEPT !.status =
                                 IF jobs[j].task.status = "pending"
                                 THEN "in_progress" ELSE "completed"]) @@ tasks
              /\ jobs' = [jobs EXCEPT ![j] = Completed(jobs[j])]
         ELSE /\ tasks' = tasks
              /\ jobs' = [jobs EXCEPT ![j] = Failed(jobs[j], "Error")]
    /\ UNCHANGED <<rows, users, outbox, overdue, sweep, nextId, committed, calls>>

\* task.status = status; await this.tasksRepository.save(task)
JobSave(j) ==
    /\ jobs[j].state = "saving"
    /\ \E ok \in BOOLEAN :
         IF ok
         THEN /\ tasks' = (jobs[j].taskId :>
                             [jobs[j].task EXCEPT !.status = jobs[j].status]) @@ tasks
              /\ jobs' = [jobs EXCEPT ![j] = Completed(jobs[j])]
         ELSE /\ tasks' = tasks
              /\ jobs' = [jobs EXCEPT ![j] = Failed(jobs[j], "Error")]
    /\ UNCHANGED <<rows, users, outbox, overdue, sweep, nextId, committed, calls>>

\* the backoff delay of a failed attempt has elapsed: the queue moves the job
\* back to the waiting jobs
JobRetry(j) ==
    /\ jobs[j].state = "delayed"
    /\ jobs[j].waited >= jobs[j].delay
    /\ jobs' = [jobs EXCEPT ![j].state = "waiting", ![j].delay = 0,
                            ![j].waited = 0]
    /\ UNCHANGED <<rows, users, outbox, overdue, sweep, tasks, nextId, committed, calls>>

\* time passes, by one base delay, for every job that waits for its retry
Tick ==
    /\ \E j \in DOMAIN jobs :
           jobs[j].state = "delayed" /\ jobs[j].waited < jobs[j].delay
    /\ jobs' = [j \in DOMAIN jobs |->
                   IF jobs[j].state = "delayed" /\ jobs[j].waited < jobs[j].delay
                   THEN [jobs[j] EXCEPT !.waited = @ + BackoffDelay]
                   ELSE jobs[j]]
    /\ UNCHANGED <<rows, users, outbox, overdue, sweep, tasks, nextId, committed, calls>>

\* ---- OverdueTasksService.checkOverdueTasks (the hourly cron tick) ----
\* the options of the sweep job
OverdueJobOptions == [removeOnComplete |-> TRUE, removeOnFail |-> FALSE]

\* (mutation of SweepJob: the job is added with the attempts of a status job)
SweepJob_StatusAttempts ==
    [NewJob("overdue-tasks-notification", NoId, "", JobAttempts, 0)
       EXCEPT !.removeOnComplete = OverdueJobOptions.removeOnComplete,
              !.removeOnFail = OverdueJobOptions.removeOnFail]

\* the job of a tick as it enters the queue: its payload is { triggeredAt },
\* it names no task and no status, and its options are those of the add
SweepJob ==
    [NewJob("overdue-tasks-notification", NoId, "", SweepAttempts, 0)
       EXCEPT !.removeOnComplete = OverdueJobOptions.removeOnComplete,
              !.removeOnFail = OverdueJobOptions.removeOnFail]

\* await this.taskQueue.add('overdue-tasks-notification', {triggeredAt}, ...);
\* a rejected add is caught and logged.  A tick finds the sweep of the tick
\* before it finished (the ticks are an hour apart), and nothing is left of
\* the locals of that sweep.
CheckOverdueTasks ==
    /\ Len(jobs) < MaxJobs
    /\ \A j \in DOMAIN jobs : jobs[j].state \in {"completed", "failed"}
    /\ \E ok \in BOOLEAN :
         IF ok
         THEN /\ jobs' = Append(jobs, SweepJob)
              /\ sweep' = <<>>
         ELSE /\ jobs' = jobs
              /\ sweep' = sweep
    /\ UNCHANGED <<rows, users, outbox, overdue, tasks, nextId, committed, calls>>

\* ---- TaskProcessorService.handleOverdueTasks (the sweep) ----
\* (mutation of PageNumber: the page is derived from the offset without + 1)
PageNumber_ZeroBased(offset) == offset \div BatchSize

\* page: Math.floor(offset / batchSize) + 1
PageNumber(offset) == (offset \div BatchSize) + 1

\* findAll for the overdue filter: pageNumber = Number(page) || 1, limitNumber
\* = Number(limit) || 10, skip = (pageNumber - 1) * limitNumber, take =
\* limitNumber on the n matching rows in their fixed order (createdAt DESC);
\* the rows of the answer are first .. first + count - 1
FindAll(n, page, limit) ==
    LET pageNumber  == IF page = 0 THEN 1 ELSE page
        limitNumber == IF limit = 0 THEN 10 ELSE limit
        skip == (pageNumber - 1) * limitNumber
        left == n - skip
    IN  [page  |-> pageNumber,
         first |-> skip + 1,
         count |-> IF left <= 0 THEN 0
                   ELSE IF left < limitNumber THEN left ELSE limitNumber]

\* the rows the overdue filter matches at this moment
Matching == overdue + rows.added - Cardinality(rows.removed)

\* the id of the row at position pos (1, 2, ...) of the matching rows in their
\* order createdAt DESC, for a set that started as the rows 1..n (row 1 first)
\* and has seen the changes of view: rows that entered it since are newer and
\* come first, the latest at the front (ids n+1, n+2, ...), and the rows that
\* left it are passed over
RowAt(n, view, pos) ==
    IF pos <= view.added
    THEN n + view.added - pos + 1
    ELSE LET q == pos - view.added
             below(x) == Cardinality({d \in view.removed : d <= x})
         IN  CHOOSE i \in q..(q + Cardinality(view.removed)) :
                 i \notin view.removed /\ i - below(i) = q

\* return { success: true, message: ... Total: totalOverdueProcessed }
SweepReturn(loc) == [loc EXCEPT !.returned = TRUE]

\* (mutation of SweepFetch: an error of findAll is rethrown as an
\* UnrecoverableError)
SweepFetch_Unrecoverable(j) ==
    /\ jobs[j].state = "active" /\ jobs[j].name = "overdue-tasks-notification"
    /\ sweep[j].idx = sweep[j].count
    /\ \E ok \in BOOLEAN :
         IF ~ok
         THEN /\ jobs' = [jobs EXCEPT ![j] = Failed(jobs[j], "UnrecoverableError")]
              /\ sweep' = [i \in DOMAIN sweep \ {j} |-> sweep[i]]
         ELSE LET asked == PageNumber(sweep[j].offset)
                  page  == FindAll(Matching, asked, BatchSize)
                  loc   == [sweep[j] EXCEPT !.fetched =
                               Append(@, [page |-> asked, first |-> page.first,
                                          count |-> page.count, view |-> rows])]
              IN  IF page.count = 0
                  THEN /\ jobs' = [jobs EXCEPT ![j] = Completed(jobs[j])]
                       /\ sweep' = [sweep EXCEPT ![j] = SweepReturn(loc)]
                  ELSE /\ jobs' = jobs
                       /\ sweep' = [sweep EXCEPT ![j] =
                                       [loc EXCEPT !.first = page.first,
                                                   !.count = page.count,
                                                   !.idx = 0, !.view = rows]]
    /\ UNCHANGED <<rows, users, outbox, overdue, tasks, nextId, committed, calls>>

\* const overdueTasks = await this.tasksService.findAll({... page, limit});
\* an error of findAll leaves the handler and fails the attempt; an empty page
\* ends the loop and the handler returns
SweepFetch(j) ==
    /\ jobs[j].state = "active" /\ jobs[j].name = "overdue-tasks-notification"
    /\ sweep[j].idx = sweep[j].count
    /\ \E ok \in BOOLEAN :
         IF ~ok
         THEN /\ jobs' = [jobs EXCEPT ![j] = Failed(jobs[j], "Error")]
              /\ sweep' = [i \in DOMAIN sweep \ {j} |-> sweep[i]]
         ELSE LET asked == PageNumber(sweep[j].offset)
                  page  == FindAll(Matching, asked, BatchSize)
                  loc   == [sweep[j] EXCEPT !.fetched =
                               Append(@, [page |-> asked, first |-> page.first,
                                          count |-> page.count, view |-> rows])]
              IN  IF page.count = 0
                  THEN /\ jobs' = [jobs EXCEPT ![j] = Completed(jobs[j])]
                       /\ sweep' = [sweep EXCEPT ![j] = SweepReturn(loc)]
                  ELSE /\ jobs' = jobs
                       /\ sweep' = [sweep EXCEPT ![j] =
                                       [loc EXCEPT !.first = page.first,
                                                   !.count = page.count,
                                                   !.idx = 0, !.view = rows]]
    /\ UNCHANGED <<rows, users, outbox, overdue, tasks, nextId, committed, calls>>

\* (mutation of PageDone: the offset is not moved on after a full page)
PageDone_NoAdvance(loc) ==
    LET counted == [loc EXCEPT !.total = @ + loc.count]
    IN  IF loc.count < BatchSize
        THEN SweepReturn(counted)
        ELSE counted

\* the end of the for loop over a page: totalOverdueProcessed += length; a
\* short page ends the while loop and the handler returns, a full page moves
\* the offset on
PageDone(loc) ==
    LET counted == [loc EXCEPT !.total = @ + loc.count]
    IN  IF loc.count < BatchSize
        THEN SweepReturn(counted)
        ELSE [counted EXCEPT !.offset = @ + BatchSize]

\* the step of the for loop for the task in hand, whose user has an email or
\* not (hasEmail) and for which sendMail returns or throws (ok)
MailStep(j, hasEmail, ok) ==
    /\ jobs[j].state = "active" /\ jobs[j].name = "overdue-tasks-notification"
    /\ sweep[j].idx < sweep[j].count
    /\ LET row  == sweep[j].first + sweep[j].idx
           loc  == [sweep[j] EXCEPT
                      !.idx = @ + 1,
                      !.mail = [row |-> row, hasEmail |-> hasEmail,
                                sent |-> hasEmail /\ ok],
                      !.mailFailed = @ \/ (hasEmail /\ ~ok)]
           last == loc.idx = loc.count
           next == IF last THEN PageDone(loc) ELSE loc
       IN  /\ sweep' = [sweep EXCEPT ![j] = next]
           /\ jobs' = IF next.returned
                      THEN [jobs EXCEPT ![j] = Completed(jobs[j])]
                      ELSE jobs
    /\ UNCHANGED <<rows, users, overdue, tasks, nextId, committed, calls>>

\* (mutation of SweepMail: the error of sendMail is not caught)
SweepMail_Throws(j) ==
    /\ jobs[j].state = "active" /\ jobs[j].name = "overdue-tasks-notification"
    /\ sweep[j].idx < sweep[j].count
    /\ \E hasEmail \in BOOLEAN, ok \in BOOLEAN :
         LET row  == sweep[j].first + sweep[j].idx
             loc  == [sweep[j] EXCEPT
                        !.idx = @ + 1,
                        !.mail = [row |-> row, hasEmail |-> hasEmail,
                                  sent |-> hasEmail /\ ok],
                        !.mailFailed = @ \/ (hasEmail /\ ~ok)]
             last == loc.idx = loc.count
             next == IF last THEN PageDone(loc) ELSE loc
         IN  IF hasEmail /\ ~ok
             THEN /\ jobs' = [jobs EXCEPT ![j] = Failed(jobs[j], "Error")]
                  /\ sweep' = [i \in DOMAIN sweep \ {j} |-> sweep[i]]
             ELSE /\ sweep' = [sweep EXCEPT ![j] = next]
                  /\ jobs' = IF next.returned
                             THEN [jobs EXCEPT ![j] = Completed(jobs[j])]
                             ELSE jobs
    /\ UNCHANGED <<rows, users, outbox, overdue, tasks, nextId, committed, calls>>

\* (mutation of SweepMail: a task whose mail went out is marked in the store)
SweepMail_WritesStatus(j) ==
    /\ jobs[j].state = "active" /\ jobs[j].name = "overdue-tasks-notification"
    /\ sweep[j].idx < sweep[j].count
    /\ \E hasEmail \in BOOLEAN, ok \in BOOLEAN :
         LET row  == sweep[j].first + sweep[j].idx
             loc  == [sweep[j] EXCEPT
                        !.idx = @ + 1,
                        !.mail = [row |-> row, hasEmail |-> hasEmail,
                                  sent |-> hasEmail /\ ok],
                        !.mailFailed = @ \/ (hasEmail /\ ~ok)]
             last == loc.idx = loc.count
             next == IF last THEN PageDone(loc) ELSE loc
         IN  /\ sweep' = [sweep EXCEPT ![j] = next]
             /\ jobs' = IF next.returned
                        THEN [jobs EXCEPT ![j] = Completed(jobs[j])]
                        ELSE jobs
             /\ tasks' = IF hasEmail /\ ok /\ row \in DOMAIN tasks
                         THEN [tasks EXCEPT ![row].status = "in_progress"]
                         ELSE tasks
    /\ UNCHANGED <<rows, users, outbox, overdue, nextId, committed, calls>>

\* the next task of the page: if (task.user && task.user.email) await sendMail
\* inside try/catch, else the task is skipped; after the last task of the page
\* the handler goes on to the end of the loop body.  The task's user has an
\* email or not, and the sendMail returns or throws, as the step finds it.
SweepMail(j) ==
    /\ outbox' = outbox
    /\ \E hasEmail \in BOOLEAN, ok \in BOOLEAN : MailStep(j, hasEmail, ok)

\* (mutation of SweepMailStored: sendMail is called whether or not the user
\* has an email)
SweepMailStored_NoEmailCheck(j) ==
    /\ jobs[j].state = "active" /\ jobs[j].name = "overdue-tasks-notification"
    /\ sweep[j].idx < sweep[j].count
    /\ LET id == RowAt(overdue, sweep[j].view, sweep[j].first + sweep[j].idx)
       IN  /\ MailStep(j, TRUE, users[id].email /\ users[id].deliverable)
           /\ outbox' = [outbox EXCEPT ![j] = Append(@,
                            [id |-> id,
                             sent |-> users[id].email /\ users[id].deliverable])]

\* (mutation of SweepMailStored: the handler remembers the tasks it has sent a
\* mail for and passes them over in later sweeps)
SweepMailStored_OncePerTask(j) ==
    /\ jobs[j].state = "active" /\ jobs[j].name = "overdue-tasks-notification"
    /\ sweep[j].idx < sweep[j].count
    /\ LET id   == RowAt(overdue, sweep[j].view, sweep[j].first + sweep[j].idx)
           seen == \E k \in DOMAIN outbox : \E m \in DOMAIN outbox[k] :
                       k # j /\ outbox[k][m].id = id /\ outbox[k][m].sent
           mail == users[id].email /\ ~seen
       IN  /\ MailStep(j, mail, users[id].deliverable)
           /\ outbox' = IF mail
                        THEN [outbox EXCEPT ![j] = Append(@,
                                 [id |-> id, sent |-> users[id].deliverable])]
                        ELSE outbox

\* the same step on a store whose users are kept row by row: the task in hand
\* is the row of the fetched page at idx, its user has the email the store
\* holds, and the sendMail to that address ends as users says; outbox keeps
\* every sendMail call
SweepMailStored(j) ==
    /\ jobs[j].state = "active" /\ jobs[j].name = "overdue-tasks-notification"
    /\ sweep[j].idx < sweep[j].count
    /\ LET id == RowAt(overdue, sweep[j].view, sweep[j].first + sweep[j].idx)
       IN  /\ MailStep(j, users[id].email, users[id].deliverable)
           /\ outbox' = IF users[id].email
                        THEN [outbox EXCEPT ![j] = Append(@,
                                 [id |-> id, sent |-> users[id].deliverable])]
                        ELSE outbox

\* ---- the scheduler runtime calling checkOverdueTasks ----
\* (mutation of ScheduledTick: the rejected add is not caught)
ScheduledTick_Raises ==
    /\ Len(calls) <= MaxCalls
    /\ Len(jobs) <= MaxJobs
    /\ \A j \in DOMAIN jobs : jobs[j].state \in {"completed", "failed"}
    /\ \E ok \in BOOLEAN :
         IF ok
         THEN /\ jobs' = Append(jobs, [SweepJob EXCEPT !.src = Len(calls) + 1])
              /\ sweep' = <<>>
              /\ calls' = Append(calls, [Call("tick", "none") EXCEPT
                                            !.result = "ok"])
         ELSE /\ jobs' = jobs
              /\ sweep' = sweep
              /\ calls' = Append(calls, Rejected("tick", "add"))
    /\ UNCHANGED <<rows, users, outbox, overdue, tasks, nextId, committed>>

\* checkOverdueTasks as CheckOverdueTasks has it, with every run of it kept as
\* a call: how the run ended for the runtime (result) and whether its add was
\* rejected (failedAt); the job carries the number of the tick that added it.
\* One tick more than MaxCalls and one job more than MaxJobs take place.
ScheduledTick ==
    /\ Len(calls) <= MaxCalls
    /\ Len(jobs) <= MaxJobs
    /\ \A j \in DOMAIN jobs : jobs[j].state \in {"completed", "failed"}
    /\ \E ok \in BOOLEAN :
         IF ok
         THEN /\ jobs' = Append(jobs, [SweepJob EXCEPT !.src = Len(calls) + 1])
              /\ sweep' = <<>>
              /\ calls' = Append(calls, [Call("tick", "none") EXCEPT
                                            !.result = "ok"])
         ELSE /\ jobs' = jobs
              /\ sweep' = sweep
              /\ calls' = Append(calls, [Call("tick", "none") EXCEPT
                                            !.result = "ok", !.failedAt = "add"])
    /\ UNCHANGED <<rows, users, outbox, overdue, tasks, nextId, committed>>

\* (mutation of TickAtAnyTime: the tick calls the sweep handler itself after
\* the add)
TickAtAnyTime_CallsHandler ==
    /\ Len(calls) <= MaxCalls
    /\ \E ok \in BOOLEAN :
         IF ok
         THEN /\ jobs' = Append(jobs, [SweepJob EXCEPT !.src = Len(calls) + 1,
                                                       !.state = "active"])
              /\ sweep' = ((Len(jobs) + 1) :> SweepLocals) @@ sweep
              /\ calls' = Append(calls, [Call("tick", "none") EXCEPT
                                            !.result = "ok"])
         ELSE /\ jobs' = jobs
              /\ sweep' = sweep
              /\ calls' = Append(calls, [Call("tick", "none") EXCEPT
                                            !.result = "ok", !.failedAt = "add"])
    /\ UNCHANGED <<rows, users, outbox, overdue, tasks, nextId, committed>>

\* checkOverdueTasks run by the timer whatever the worker is doing: the hour
\* has passed, whether or not the job of the tick before has been taken or
\* has finished.  The run is kept as a call, as in ScheduledTick.
TickAtAnyTime ==
    /\ Len(calls) <= MaxCalls
    /\ \E ok \in BOOLEAN :
         IF ok
         THEN /\ jobs' = Append(jobs, [SweepJob EXCEPT !.src = Len(calls) + 1])
              /\ calls' = Append(calls, [Call("tick", "none") EXCEPT
                                            !.result = "ok"])
         ELSE /\ jobs' = jobs
              /\ calls' = Append(calls, [Call("tick", "none") EXCEPT
                                            !.result = "ok", !.failedAt = "add"])
    /\ sweep' = sweep
    /\ UNCHANGED <<rows, users, outbox, overdue, tasks, nextId, committed>>

\* ---- the task table changing under a running sweep ----
SweepRunning ==
    \E j \in DOMAIN jobs :
        jobs[j].name = "overdue-tasks-notification" /\ jobs[j].state = "active"

\* TasksService.create commits a pending task whose due date has passed: the
\* newest row of the table, so the first of the matching rows
TaskAppears ==
    /\ SweepRunning
    /\ rows.added + Cardinality(rows.removed) < MaxChurn
    /\ rows' = [rows EXCEPT !.added = @ + 1]
    /\ UNCHANGED <<users, outbox, overdue, sweep, tasks, nextId, committed,
                   calls, jobs>>

\* TasksService.remove deletes row d, one of the rows that matched at the
\* start (an update that moves its status off pending does the same to the
\* overdue set)
TaskDisappears(d) ==
    /\ SweepRunning
    /\ rows.added + Cardinality(rows.removed) < MaxChurn
    /\ d \in (1..overdue) \ rows.removed
    /\ rows' = [rows EXCEPT !.removed = @ \cup {d}]
    /\ UNCHANGED <<users, outbox, overdue, sweep, tasks, nextId, committed,
                   calls, jobs>>

Next ==
    \/ \E u \in Users, st \in TaskStatus : CreateSave(u, st)
    \/ \E c \in DOMAIN calls : CreateAdd(c)
    \/ \E c \in DOMAIN calls : CreateCommit(c)
    \/ \E u \in Users, id \in RequestIds, d \in TaskStatus \cup {"none"} :
           UpdateFind(u, id, d)
    \/ \E c \in DOMAIN calls : UpdateSave(c)
    \/ \E c \in DOMAIN calls : UpdateAdd(c)
    \/ \E u \in Users, id \in RequestIds : RemoveFind(u, id)
    \/ \E c \in DOMAIN calls : RemoveDelete(c)
    \/ \E u \in Users, ids \in SUBSET RequestIds \ {{}}, st \in BatchStatus :
           BatchUpdate(u, ids, st)
    \/ \E c \in DOMAIN calls : BatchAddSettle(c)
    \/ \E j \in DOMAIN jobs : JobStart(j)
    \/ \E j \in DOMAIN jobs : JobFind(j)
    \/ \E j \in DOMAIN jobs : JobSave(j)
    \/ \E j \in DOMAIN jobs : JobRetry(j)
    \/ Tick

Spec == Init /\ [][Next]_vars

\* the worker keeps taking jobs while a slot is free, every store call of a
\* handler returns, and every backoff delay elapses
WorkerFairness ==
    /\ WF_vars(Tick)
    /\ \A j \in 1..MaxJobs :
        /\ WF_vars(j \in DOMAIN jobs /\ JobStart(j))
        /\ WF_vars(j \in DOMAIN jobs /\ JobFind(j))
        /\ WF_vars(j \in DOMAIN jobs /\ JobSave(j))
        /\ WF_vars(j \in DOMAIN jobs /\ JobRetry(j))

FairSpec == Spec /\ WorkerFairness

\* ---- the worker alone, on jobs that any client of the queue has added ----
\* status values of such payloads: the members of the enum, none, and a
\* string that is no member
QueuedStatus == TaskStatus \cup {"", "archived"}

QueuedJobs ==
    {NewJob("task-status-update", id, st, JobAttempts, 0) :
         id \in RequestIds \cup {NoId}, st \in QueuedStatus}
    \cup {NewJob("unknown-job", NoId, "", JobAttempts, 0),
          NewJob("unknown-job", 1, "completed", JobAttempts, 0)}

WorkerInit ==
    /\ \E n \in {0, 1} :
         /\ tasks = [i \in 1..n |-> [status |-> "pending", userId |-> "u1"]]
         /\ nextId = n + 1
         /\ committed = 1..n
    /\ calls = <<>>
    /\ \E k \in 1..MaxJobs : jobs \in [1..k -> QueuedJobs]
    /\ overdue = 0
    /\ sweep = <<>>
    /\ rows = NoChurn /\ users = <<>> /\ outbox = <<>>

WorkerNext ==
    \/ \E j \in DOMAIN jobs : JobStart(j)
    \/ \E j \in DOMAIN jobs : JobFind(j)
    \/ \E j \in DOMAIN jobs : JobSave(j)
    \/ \E j \in DOMAIN jobs : JobRetry(j)
    \/ Tick

WorkerSpec == WorkerInit /\ [][WorkerNext]_vars

FairWorkerSpec == WorkerSpec /\ WorkerFairness

\* ---- the worker on the two jobs of two successive updates of one task ----
\* update(1, {status: s1}) then update(1, {status: s2}) have both returned:
\* the store holds s2, the queue the job of each
RaceInit ==
    \E s0, s1, s2 \in TaskStatus :
        /\ s0 # s1 /\ s1 # s2
        /\ tasks = <<[status |-> s2, userId |-> "u1"]>>
        /\ nextId = 2
        /\ committed = {1}
        /\ calls = <<[Call("update", "u1") EXCEPT
                         !.id = 1, !.origStatus = s0, !.saved = TRUE,
                         !.task = [status |-> s1, userId |-> "u1"],
                         !.result = "ok"],
                     [Call("update", "u1") EXCEPT
                         !.id = 1, !.origStatus = s1, !.saved = TRUE,
                         !.task = [status |-> s2, userId |-> "u1"],
                         !.result = "ok"]>>
        /\ jobs = <<NewJob("task-status-update", 1, s1, JobAttempts, 1),
                    NewJob("task-status-update", 1, s2, JobAttempts, 2)>>
        /\ overdue = 0
        /\ sweep = <<>>
        /\ rows = NoChurn /\ users = <<>> /\ outbox = <<>>

RaceSpec == RaceInit /\ [][WorkerNext]_vars

\* ---- the sweep alone: the cron tick and the worker on a store in which the
\* overdue filter matches a fixed number of rows; the first of them, if there
\* is one, is kept as task 1 of the store, of the others only the number ----
SweepInit ==
    /\ overdue \in 0..MaxOverdue
    /\ LET n == IF overdue > 0 THEN 1 ELSE 0
       IN  /\ tasks = [i \in 1..n |-> [status |-> "pending", userId |-> "u1"]]
           /\ nextId = n + 1
           /\ committed = 1..n
    /\ calls = <<>>
    /\ jobs = <<>>
    /\ sweep = <<>>
    /\ rows = NoChurn /\ users = <<>> /\ outbox = <<>>

SweepNext ==
    \/ CheckOverdueTasks
    \/ \E j \in DOMAIN jobs : JobStart(j)
    \/ \E j \in DOMAIN jobs : SweepFetch(j)
    \/ \E j \in DOMAIN jobs : SweepMail(j)

SweepSpec == SweepInit /\ [][SweepNext]_vars

\* ---- the scheduler and the sweep, tick after tick, on a small store whose
\* users are kept row by row: each has an email or none, and the sendMail to
\* it returns or throws, the same at every sweep ----
RepeatInit ==
    /\ tasks = <<>>
    /\ nextId = 1
    /\ committed = {}
    /\ calls = <<>>
    /\ jobs = <<>>
    /\ overdue \in 0..MaxRows
    /\ sweep = <<>>
    /\ rows = NoChurn
    /\ users \in [1..overdue -> [email : BOOLEAN, deliverable : BOOLEAN]]
    /\ outbox = <<>>

RepeatNext ==
    \/ ScheduledTick
    \/ \E j \in DOMAIN jobs : JobStart(j)
    \/ \E j \in DOMAIN jobs : SweepFetch(j)
    \/ \E j \in DOMAIN jobs : SweepMailStored(j)

RepeatSpec == RepeatInit /\ [][RepeatNext]_vars

\* ---- the sweep on a table that changes while it runs: the overdue filter
\* matches one row more than a page holds, every user has an email and every
\* sendMail returns ----
ChurnInit ==
    /\ tasks = <<>>
    /\ nextId = 1
    /\ committed = {}
    /\ calls = <<>>
    /\ jobs = <<>>
    /\ overdue = BatchSize + 1
    /\ sweep = <<>>
    /\ rows = NoChurn
    /\ users = [i \in 1..(overdue + MaxChurn) |->
                   [email |-> TRUE, deliverable |-> TRUE]]
    /\ outbox = <<>>

ChurnNext ==
    \/ CheckOverdueTasks
    \/ \E j \in DOMAIN jobs : JobStart(j)
    \/ \E j \in DOMAIN jobs : SweepFetch(j)
    \/ \E j \in DOMAIN jobs : SweepMailStored(j)
    \/ TaskAppears
    \/ \E d \in 1..overdue : TaskDisappears(d)

ChurnSpec == ChurnInit /\ [][ChurnNext]_vars

\* ---- the worker on a sweep job that has the one attempt of the tick's add
\* or the attempts of the queue's defaultJobOptions, on a store in which the
\* overdue filter matches a page or a little more; every user has an email
\* and every sendMail returns ----
RetryInit ==
    /\ tasks = <<>>
    /\ nextId = 1
    /\ committed = {}
    /\ calls = <<>>
    /\ \E a \in {SweepAttempts, JobAttempts} :
           jobs = <<[SweepJob EXCEPT !.maxAttempts = a]>>
    /\ overdue \in BatchSize..(BatchSize + MaxRows)
    /\ sweep = <<>>
    /\ rows = NoChurn
    /\ users = [i \in 1..overdue |-> [email |-> TRUE, deliverable |-> TRUE]]
    /\ outbox = <<>>

RetryNext ==
    \/ \E j \in DOMAIN jobs : JobStart(j)
    \/ \E j \in DOMAIN jobs : SweepFetch(j)
    \/ \E j \in DOMAIN jobs : SweepMailStored(j)
    \/ \E j \in DOMAIN jobs : JobRetry(j)
    \/ Tick

RetrySpec == RetryInit /\ [][RetryNext]_vars

\* ---- the worker on a queue that holds more jobs than it has slots: it has
\* taken as many jobs (of an unknown name) as it has slots, and status jobs
\* wait behind them ----
PoolJobs ==
    {NewJob("task-status-update", id, st, JobAttempts, 0) :
         id \in RequestIds, st \in BatchStatus}

PoolInit ==
    /\ \E n \in {0, 1} :
         /\ tasks = [i \in 1..n |-> [status |-> "pending", userId |-> "u1"]]
         /\ nextId = n + 1
         /\ committed = 1..n
    /\ calls = <<>>
    /\ \E k \in 1..MaxJobs : \E more \in [1..k -> PoolJobs] :
           jobs = [i \in 1..Concurrency |->
                      [NewJob("unknown-job", NoId, "", JobAttempts, 0)
                          EXCEPT !.state = "active"]] \o more
    /\ overdue = 0
    /\ sweep = <<>>
    /\ rows = NoChurn /\ users = <<>> /\ outbox = <<>>

PoolSpec == PoolInit /\ [][WorkerNext]_vars

\* ---- the worker with all slots but one taken by handlers that are blocked:
\* the call they await never returns, so they take no step.  Status jobs
\* wait behind them; their handlers' store calls return and their backoff
\* delays elapse ----
Stalled == 1..(Concurrency - 1)

StalledInit ==
    /\ \E n \in {0, 1} :
         /\ tasks = [i \in 1..n |-> [status |-> "pending", userId |-> "u1"]]
         /\ nextId = n + 1
         /\ committed = 1..n
    /\ calls = <<>>
    /\ \E k \in 1..(MaxJobs + 1) :
           jobs = [i \in Stalled |->
                      [NewJob("unknown-job", NoId, "", JobAttempts, 0)
                          EXCEPT !.state = "active"]]
                  \o [i \in 1..k |->
                         NewJob("task-status-update", 1, "completed",
                                JobAttempts, 0)]
    /\ overdue = 0
    /\ sweep = <<>>
    /\ rows = NoChurn /\ users = <<>> /\ outbox = <<>>

StalledFairness ==
    /\ WF_vars(Tick)
    /\ \A j \in Concurrency..(Concurrency + MaxJobs) :
        /\ WF_vars(j \in DOMAIN jobs /\ JobStart(j))
        /\ WF_vars(j \in DOMAIN jobs /\ JobFind(j))
        /\ WF_vars(j \in DOMAIN jobs /\ JobSave(j))
        /\ WF_vars(j \in DOMAIN jobs /\ JobRetry(j))

StalledNext ==
    \/ \E j \in DOMAIN jobs \ Stalled : JobStart(j)
    \/ \E j \in DOMAIN jobs \ Stalled : JobFind(j)
    \/ \E j \in DOMAIN jobs \ Stalled : JobSave(j)
    \/ \E j \in DOMAIN jobs \ Stalled : JobRetry(j)
    \/ Tick

StalledSpec == StalledInit /\ [][StalledNext]_vars /\ StalledFairness

\* ---- the worker on a job that the queue delivers twice: two jobs of one
\* valid payload, and nothing else that writes the store ----
TwiceInit ==
    /\ \E n \in {0, 1} : \E st0 \in TaskStatus :
         /\ tasks = [i \in 1..n |-> [status |-> st0, userId |-> "u1"]]
         /\ nextId = n + 1
         /\ committed = 1..n
    /\ calls = <<>>
    /\ \E id \in RequestIds : \E st \in TaskStatus :
           jobs = [i \in 1..2 |->
                      NewJob("task-status-update", id, st, JobAttempts, 0)]
    /\ overdue = 0
    /\ sweep = <<>>
    /\ rows = NoChurn /\ users = <<>> /\ outbox = <<>>

TwiceSpec == TwiceInit /\ [][WorkerNext]_vars

\* ---- the timer and the worker while every slot of the worker is taken by a
\* handler that may take any time to end (jobs of an unknown name); the
\* overdue filter matches no row ----
BusyInit ==
    /\ tasks = <<[status |-> "pending", userId |-> "u1"]>>
    /\ nextId = 2
    /\ committed = {1}
    /\ calls = <<>>
    /\ jobs = [i \in 1..Concurrency |->
                  [NewJob("unknown-job", NoId, "", JobAttempts, 0)
                      EXCEPT !.state = "active"]]
    /\ overdue = 0
    /\ sweep = <<>>
    /\ rows = NoChurn /\ users = <<>> /\ outbox = <<>>

BusyNext ==
    \/ TickAtAnyTime
    \/ \E j \in DOMAIN jobs : JobStart(j)
    \/ \E j \in DOMAIN jobs : JobFind(j)
    \/ \E j \in DOMAIN jobs : SweepFetch(j)

BusySpec == BusyInit /\ [][BusyNext]_vars

\* ---- the service on a store that is empty or holds the task of a user who
\* is not among the callers ----
OwnerInit ==
    /\ \E n \in {0, 1} :
         /\ tasks = [i \in 1..n |-> [status |-> "pending", userId |-> "u2"]]
         /\ nextId = n + 1
         /\ committed = 1..n
    /\ calls = <<>>
    /\ jobs = <<>>
    /\ overdue = 0
    /\ sweep = <<>>
    /\ rows = NoChurn /\ users = <<>> /\ outbox = <<>>

OwnerSpec == OwnerInit /\ [][Next]_vars

(***************************************************************************)
(* Properties of the producer operations                                   *)
(***************************************************************************)
Ended(c) == calls[c].result # "none"

\* the status change an update call asked for has been persisted
PersistedChange(c) ==
    /\ calls[c].op = "update" /\ calls[c].saved
    /\ calls[c].origStatus # calls[c].task.status

\* C1: every call of create that returned successfully has added exactly one
\* 'task-status-update' job, whose payload carries the id of the saved task
\* and the status it was saved with.
C1_CreateEnqueuesOneJob ==
    \A c \in DOMAIN calls :
        (calls[c].op = "create" /\ calls[c].result = "ok") =>
            /\ Cardinality(JobsOf(c)) = 1
            /\ \A j \in JobsOf(c) :
                   /\ jobs[j].name = "task-status-update"
                   /\ jobs[j].taskId = calls[c].id
                   /\ jobs[j].status = calls[c].task.status

\* C1 witness: a create that returned successfully with a status other than
\* the default, its job in the queue.
C1_Witness ==
    \E c \in DOMAIN calls :
        /\ calls[c].op = "create" /\ calls[c].result = "ok"
        /\ calls[c].task.status = "completed"
        /\ JobsOf(c) # {}

\* C2: every call of update whose saved status differs from the status read
\* before the merge has, once it ended, enqueued exactly one
\* 'task-status-update' job, carrying the new status.
C2_UpdateChangedEnqueuesOneJob ==
    \A c \in DOMAIN calls :
        (PersistedChange(c) /\ Ended(c)) =>
            /\ Cardinality(JobsOf(c)) = 1
            /\ \A j \in JobsOf(c) :
                   /\ jobs[j].name = "task-status-update"
                   /\ jobs[j].taskId = calls[c].id
                   /\ jobs[j].status = calls[c].task.status

\* C3: a call of update whose status after the update equals the status before
\* it (an update of other fields only included) enqueues no job: the step that
\* saves it leaves the queue unchanged and ends the call, and no job is ever
\* attributed to the call.
C3_UpdateSameStatusNoJob ==
    [][\A c \in DOMAIN calls' :
          (/\ calls'[c].op = "update" /\ calls'[c].saved
           /\ calls'[c].origStatus = calls'[c].task.status) =>
              /\ \A j \in DOMAIN jobs' : jobs'[j].src # c
              /\ calls'[c].pc = "done" /\ calls'[c].result = "ok"
              /\ (c \in DOMAIN calls /\ ~calls[c].saved) => jobs' = jobs]_vars

\* C3 witness: an update that left the status as it was has been saved and
\* has returned, and the queue is empty.
C3_Witness ==
    /\ \E c \in DOMAIN calls :
           /\ calls[c].op = "update" /\ calls[c].saved /\ calls[c].result = "ok"
           /\ calls[c].origStatus = calls[c].task.status
    /\ jobs = <<>>

\* C4: when the enqueue of create fails the persistence write is rolled back:
\* the new task is not in the store, was never committed, and the call has
\* left no job in the queue.
C4_CreateAddFailureRollsBack ==
    \A c \in DOMAIN calls :
        (calls[c].op = "create" /\ calls[c].failedAt = "add") =>
            /\ calls[c].id \notin DOMAIN tasks
            /\ calls[c].id \notin committed
            /\ JobsOf(c) = {}
            /\ (Ended(c) => calls[c].result = "error")

\* C4 witness: a create whose enqueue failed has ended.
C4_Witness ==
    \E c \in DOMAIN calls :
        calls[c].op = "create" /\ calls[c].failedAt = "add" /\ Ended(c)

\* C5: a persistence failure of create never leaves an orphaned job: a job
\* produced by create refers to a task whose creation was committed.  Stated
\* for the calls that have ended, so that the job of a create still on its way
\* to the commit does not count as orphaned.
C5_NoOrphanedJob ==
    \A j \in DOMAIN jobs :
        (calls[jobs[j].src].op = "create" /\ Ended(jobs[j].src)) =>
            jobs[j].taskId \in committed

\* C6: the persistence write and the enqueue of update are atomic: no update
\* call has ended, normally or with an error, with its status change persisted
\* and no job enqueued for it.
C6_UpdateAtomic ==
    \A c \in DOMAIN calls :
        (PersistedChange(c) /\ Ended(c)) => JobsOf(c) # {}

\* C7: once batchUpdateStatus has issued all its jobs, an id has a job of the
\* call if and only if its row was changed by the store update of the call.
C7_BatchJobsForAffectedOnly ==
    \A c \in DOMAIN calls :
        (calls[c].op = "batch" /\ calls[c].saved /\ calls[c].pc = "done") =>
            {jobs[j].taskId : j \in JobsOf(c)} = calls[c].affected

(***************************************************************************)
(* Properties of the queue and the worker                                  *)
(***************************************************************************)
\* C8: a batch status update over n distinct ids enqueues exactly n jobs, one
\* per id, each with its own attempt counter within its own budget of 3
\* (that the jobs do not affect each other is BatchJobsIsolated below).
C8_BatchEnqueuesOnePerId ==
    \A c \in DOMAIN calls :
        (calls[c].op = "batch" /\ calls[c].saved /\ calls[c].pc = "done") =>
            /\ Cardinality(JobsOf(c)) = Cardinality(calls[c].ids)
            /\ {jobs[j].taskId : j \in JobsOf(c)} = calls[c].ids
            /\ \A j \in JobsOf(c) :
                   jobs[j].maxAttempts = JobAttempts
                   /\ jobs[j].attemptsMade <= JobAttempts

\* the part of C8 about isolation: a step that changes one job of a batch
\* leaves every other job as it was
BatchJobsIsolated ==
    [][\A j, k \in DOMAIN jobs :
          (j # k /\ jobs'[j] # jobs[j]) => jobs'[k] = jobs[k]]_vars

\* C9: every job has attemptsMade <= maxAttempts; a job that has used up its
\* attempts is completed or terminal-failed, and a terminal-failed job is
\* never changed (so never dispatched) again.
C9_AttemptsBounded ==
    [][\A j \in DOMAIN jobs' :
          /\ jobs'[j].attemptsMade <= jobs'[j].maxAttempts
          /\ (jobs'[j].attemptsMade = jobs'[j].maxAttempts) =>
                 jobs'[j].state \in {"failed", "completed"}
          /\ (j \in DOMAIN jobs /\ jobs[j].state = "failed") => jobs'[j] = jobs[j]]_vars

\* C9 witness: a job that failed on its last allowed attempt.
C9_Witness ==
    \E j \in DOMAIN jobs :
        jobs[j].state = "failed" /\ jobs[j].attemptsMade = jobs[j].maxAttempts

\* C10: an attempt of a job with a valid payload whose task id is not in the
\* store fails on the recoverable path: the attempt is counted, and the job is
\* delayed for a retry while attempts remain and terminal-failed at the last;
\* it is never attempted more than maxAttempts times.
C10_MissingTaskRetried ==
    [][\A j \in DOMAIN jobs :
          (/\ jobs[j].state = "active" /\ jobs'[j] # jobs[j]
           /\ ~PayloadError(jobs[j])
           /\ jobs[j].taskId \notin DOMAIN tasks) =>
              /\ jobs[j].attemptsMade < jobs[j].maxAttempts
              /\ jobs'[j].attemptsMade = jobs[j].attemptsMade + 1
              /\ jobs'[j].state =
                     IF jobs'[j].attemptsMade < jobs[j].maxAttempts
                     THEN "delayed" ELSE "failed"
              /\ tasks' = tasks]_vars

\* the liveness side of C10, under FairSpec: a job for an id that never names a
\* task does reach terminal failure with all its attempts used
MissingTaskEventuallyFails ==
    \A j \in 1..MaxJobs :
        [](( /\ j \in DOMAIN jobs
             /\ ~PayloadError(jobs[j])
             /\ jobs[j].taskId \notin TaskIds)
           => <>(/\ j \in DOMAIN jobs
                 /\ jobs[j].state = "failed"
                 /\ jobs[j].attemptsMade = jobs[j].maxAttempts))

\* C10 witness: a job for an id that never named a task has terminal-failed
\* after exactly maxAttempts attempts.
C10_Witness ==
    \E j \in DOMAIN jobs :
        /\ jobs[j].taskId \notin committed
        /\ calls[jobs[j].src].op = "batch"
        /\ jobs[j].state = "failed" /\ jobs[j].attemptsMade = JobAttempts

(***************************************************************************)
(* Properties of the error classes and of the retries                      *)
(***************************************************************************)
\* C11: a 'task-status-update' job whose status is no member of TaskStatus
\* fails with an UnrecoverableError on its first attempt: it never reaches the
\* store call, is never delayed for a retry, its attempt count goes to 1 and
\* stays there, and no step of the job writes the store.
C11_InvalidStatusUnrecoverable ==
    [][\A j \in DOMAIN jobs :
          (jobs[j].name = "task-status-update" /\ jobs[j].status \notin TaskStatus) =>
              /\ jobs'[j].state \in {"waiting", "active", "failed"}
              /\ jobs'[j].attemptsMade <= 1
              /\ (jobs[j].state = "active" /\ jobs'[j] # jobs[j]) =>
                     /\ jobs'[j].state = "failed"
                     /\ jobs'[j].error = "UnrecoverableError"
                     /\ jobs'[j].attemptsMade = 1
              /\ (jobs[j].state = "failed") => jobs'[j] = jobs[j]
              /\ (jobs'[j] # jobs[j]) => tasks' = tasks]_vars

\* C11 witness: a job for an existing task with a status outside the enum has
\* failed after one attempt, the task untouched.
C11_Witness ==
    \E j \in DOMAIN jobs :
        /\ jobs[j].status = "archived" /\ jobs[j].taskId \in DOMAIN tasks
        /\ jobs[j].state = "failed" /\ jobs[j].attemptsMade = 1
        /\ tasks[jobs[j].taskId].status = "pending"

\* C12: a 'task-status-update' job whose first two attempts threw a
\* recoverable error (its attempt count is 2) and whose third attempt succeeds
\* ends with attemptsMade = 3 = maxAttempts and completed, the stored status of
\* the task equal to the status of the payload; a completed job is never
\* changed again, so no further retry of it is scheduled.
C12_ThirdAttemptSucceeds ==
    [][\A j \in DOMAIN jobs :
          /\ (/\ jobs[j].name = "task-status-update"
              /\ jobs[j].maxAttempts = JobAttempts
              /\ jobs[j].attemptsMade = JobAttempts - 1
              /\ jobs[j].state # "completed" /\ jobs'[j].state = "completed") =>
                 /\ jobs'[j].attemptsMade = JobAttempts
                 /\ jobs'[j].removed
                 /\ jobs[j].taskId \in DOMAIN tasks'
                 /\ tasks'[jobs[j].taskId].status = jobs[j].status
          /\ (jobs'[j].state = "completed" /\ jobs[j].state # "completed") =>
                 /\ jobs[j].state = "saving"
                 /\ jobs'[j].attemptsMade = jobs[j].attemptsMade + 1
                 /\ tasks'[jobs[j].taskId].status = jobs[j].status
          /\ (jobs[j].state = "completed") => jobs'[j] = jobs[j]]_vars

\* C12 witness: a job completed by its third attempt, the task holding the
\* status of its payload.
C12_Witness ==
    \E j \in DOMAIN jobs :
        /\ jobs[j].state = "completed" /\ jobs[j].attemptsMade = JobAttempts
        /\ jobs[j].taskId \in DOMAIN tasks
        /\ tasks[jobs[j].taskId].status = jobs[j].status

\* C13 as stated: a job whose handler raised an UnrecoverableError is acked
\* and dropped, that is, it has left the queue and is not kept as a failed job.
C13_UnrecoverableDropped ==
    \A j \in DOMAIN jobs :
        (jobs[j].state = "failed" /\ jobs[j].error = "UnrecoverableError") =>
            jobs[j].removed

\* C13 amended: when the handler raises an UnrecoverableError (unknown job
\* name, missing field, status outside the enum) the job is not retried: that
\* one attempt is counted, the job goes to the failed set, stays in the queue
\* there (removeOnFail: false) and is never changed or enqueued again.
C13_UnrecoverableNotRetried ==
    [][\A j \in DOMAIN jobs :
          /\ (/\ jobs[j].state = "active" /\ jobs'[j] # jobs[j]
              /\ (jobs[j].name # "task-status-update" \/ PayloadError(jobs[j]))) =>
                 /\ jobs'[j].state = "failed"
                 /\ jobs'[j].error = "UnrecoverableError"
                 /\ jobs'[j].attemptsMade = jobs[j].attemptsMade + 1
                 /\ ~jobs'[j].removed
          /\ (jobs[j].error = "UnrecoverableError") =>
                 /\ jobs[j].state = "failed"
                 /\ jobs'[j] = jobs[j]]_vars

\* C13 witness: a job of an unknown name has failed after one attempt with an
\* UnrecoverableError and is still in the queue, with attempts left over.
C13_Witness ==
    \E j \in DOMAIN jobs :
        /\ jobs[j].name = "unknown-job"
        /\ jobs[j].state = "failed" /\ jobs[j].error = "UnrecoverableError"
        /\ jobs[j].attemptsMade < jobs[j].maxAttempts
        /\ ~jobs[j].removed

\* C14: a job that failed on its last allowed attempt is terminal-failed and
\* stays in the queue (it is never deleted and never changed again), while a
\* job that succeeded is deleted from the queue; no other job is deleted.
C14_FailedKeptCompletedRemoved ==
    [][\A j \in DOMAIN jobs' :
          /\ (jobs'[j].state = "failed") => ~jobs'[j].removed
          /\ (jobs'[j].state = "completed") => jobs'[j].removed
          /\ (jobs'[j].state \notin {"failed", "completed"}) => ~jobs'[j].removed
          /\ (j \in DOMAIN jobs /\ jobs[j].state = "failed") => jobs'[j] = jobs[j]]_vars

\* C14 witness: a job that failed recoverably on its last attempt is in the
\* queue's failed set.
C14_Witness ==
    \E j \in DOMAIN jobs :
        /\ jobs[j].state = "failed" /\ jobs[j].error = "Error"
        /\ jobs[j].attemptsMade = jobs[j].maxAttempts
        /\ ~jobs[j].removed

\* C15: the k-th failed attempt of a job, k < maxAttempts, delays the job by
\* BackoffDelay * 2^(k-1), and the job goes back to the waiting jobs (the only
\* way to a dispatch) only when that much time has passed: 1000 ms after the
\* first failure and 2000 ms after the second.
C15_ExponentialBackoff ==
    [][\A j \in DOMAIN jobs :
          /\ (jobs[j].state # "delayed" /\ jobs'[j].state = "delayed") =>
                 /\ jobs'[j].attemptsMade = jobs[j].attemptsMade + 1
                 /\ jobs'[j].attemptsMade < jobs'[j].maxAttempts
                 /\ jobs'[j].delay = BackoffDelay * 2 ^ (jobs'[j].attemptsMade - 1)
                 /\ jobs'[j].waited = 0
          /\ (jobs[j].state = "delayed" /\ jobs'[j].state # "delayed") =>
                 /\ jobs'[j].state = "waiting"
                 /\ jobs[j].waited >= BackoffDelay * 2 ^ (jobs[j].attemptsMade - 1)
          /\ (jobs[j].state = "delayed") =>
                 jobs'[j].attemptsMade = jobs[j].attemptsMade]_vars

\* C15 witness: a job waits again after its second failure and a delay of
\* twice the base delay.
C15_Witness ==
    \E j \in DOMAIN jobs :
        /\ jobs[j].state = "delayed" /\ jobs[j].attemptsMade = 2
        /\ jobs[j].delay = 2 * BackoffDelay
        /\ jobs[j].waited = jobs[j].delay

(***************************************************************************)
(* Properties of concurrent jobs and of the delivery                       *)
(***************************************************************************)
\* C16: when the two jobs of two successive updates of one task have both
\* completed, in whatever order, the stored status of the task is the status
\* written by the more recent update.
C16_LastUpdateWins ==
    (/\ Len(jobs) = 2 /\ Len(calls) = 2
     /\ \A j \in DOMAIN jobs : jobs[j].state = "completed") =>
        tasks[1].status = calls[2].task.status

\* C17: under the fairness of the worker, every job in the queue is
\* dispatched at least once (an attempt of it is counted) and reaches a
\* terminal state, completed or failed for good.
C17_AtLeastOnce ==
    \A j \in 1..MaxJobs :
        [](j \in DOMAIN jobs =>
              <>(/\ j \in DOMAIN jobs
                 /\ jobs[j].state \in {"completed", "failed"}
                 /\ jobs[j].attemptsMade >= 1))

\* C17 witness: a job that went through a retry has reached a terminal state
\* by completing.
C17_Witness ==
    \E j \in DOMAIN jobs :
        /\ jobs[j].state = "completed"
        /\ jobs[j].attemptsMade > 1 /\ jobs[j].attemptsMade < jobs[j].maxAttempts

(***************************************************************************)
(* Properties of the overdue sweep                                         *)
(***************************************************************************)
\* rows of the overdue set a sweep has gone through
Handled(loc) == loc.total + (IF loc.idx = loc.count THEN 0 ELSE loc.idx)

\* ceil(n / BatchSize)
CeilPages(n) == (n + BatchSize - 1) \div BatchSize

\* C18: a sweep that returned, on an unchanged set of n matching rows, has
\* asked for the pages 1, 2, 3, ... in this order with page size 100, each
\* matching row is in exactly one of the fetched pages, and the total it
\* reports is n (for n = 250: three pages of 100, 100 and 50 rows).
C18_SweepPagination ==
    \A j \in DOMAIN sweep :
        sweep[j].returned =>
            LET f == sweep[j].fetched
            IN  /\ \A i \in DOMAIN f : f[i].page = i
                /\ \A r \in 1..overdue :
                       Cardinality({i \in DOMAIN f :
                           f[i].first <= r /\ r < f[i].first + f[i].count}) = 1
                /\ \A i \in DOMAIN f : f[i].count <= BatchSize
                /\ \A i \in DOMAIN f :
                       f[i].count > 0 =>
                           (f[i].first >= 1 /\ f[i].first + f[i].count - 1 <= overdue)
                /\ sweep[j].total = overdue
                /\ (overdue = 2 * BatchSize + BatchSize \div 2) =>
                       (/\ Len(f) = 3
                        /\ f[1].count = BatchSize /\ f[2].count = BatchSize
                        /\ f[3].count = BatchSize \div 2)

\* C18 witness: a sweep over 250 matching rows has returned after three pages.
C18_Witness ==
    \E j \in DOMAIN sweep :
        /\ sweep[j].returned /\ jobs[j].state = "completed"
        /\ overdue = 2 * BatchSize + BatchSize \div 2
        /\ Len(sweep[j].fetched) = 3 /\ sweep[j].total = overdue

\* C19: the paging loop terminates after at most ceil(n/100) + 1 page fetches,
\* for every n: a sweep never fetches more pages than that, and every step of a
\* running sweep lowers a measure that is at least 1 while the sweep runs (the
\* rows not yet gone through, counted twice, plus one when a fetch is due).
C19_SweepTerminates ==
    [][\A j \in DOMAIN sweep :
          LET rank(loc) == 2 * (overdue - Handled(loc))
                             + (IF loc.idx = loc.count THEN 1 ELSE 0)
          IN  /\ Len(sweep[j].fetched) <= CeilPages(overdue) + 1
              /\ (jobs[j].state = "active") => rank(sweep[j]) >= 1
              /\ (jobs[j].state = "active" /\ jobs'[j].state = "active"
                     /\ j \in DOMAIN sweep' /\ sweep'[j] # sweep[j]) =>
                     rank(sweep'[j]) < rank(sweep[j])
              /\ (jobs[j].state = "active" /\ sweep[j].idx = sweep[j].count
                     /\ Handled(sweep[j]) = overdue /\ jobs'[j] # jobs[j]) =>
                     jobs'[j].state \in {"completed", "failed"}]_vars

\* C19 witness: a sweep over an exact multiple of the page size has returned
\* after the extra fetch of an empty page.
C19_Witness ==
    \E j \in DOMAIN sweep :
        /\ sweep[j].returned /\ overdue = 2 * BatchSize
        /\ Len(sweep[j].fetched) = CeilPages(overdue) + 1

\* C20: a sendMail that throws does not abort the sweep: the step of a task
\* never fails the job, whatever became of the mails before, the next task of
\* the page is the next one gone through (with a sendMail if it has an email),
\* and a sweep that had a mail fail goes through every row and returns
\* success.
C20_MailFailureIsolated ==
    [][\A j \in DOMAIN sweep :
          /\ (/\ jobs[j].state = "active" /\ sweep[j].idx < sweep[j].count
              /\ (jobs'[j] # jobs[j] \/ j \notin DOMAIN sweep'
                     \/ sweep'[j] # sweep[j])) =>
                 /\ jobs'[j].state \in {"active", "completed"}
                 /\ j \in DOMAIN sweep'
                 /\ Handled(sweep'[j]) = Handled(sweep[j]) + 1
                 /\ sweep'[j].mail.row = sweep[j].first + sweep[j].idx
                 /\ sweep'[j].mail.sent => sweep'[j].mail.hasEmail
                 /\ sweep'[j].mailFailed =
                        (sweep[j].mailFailed
                           \/ (sweep'[j].mail.hasEmail /\ ~sweep'[j].mail.sent))
          /\ (j \in DOMAIN sweep' /\ sweep'[j].returned) =>
                 /\ jobs'[j].state = "completed"
                 /\ sweep'[j].total = overdue]_vars

\* C20 witness: a sweep in which a sendMail threw, and a later one went out,
\* has returned success with every row gone through.
C20_Witness ==
    \E j \in DOMAIN sweep :
        /\ sweep[j].returned /\ jobs[j].state = "completed"
        /\ sweep[j].mailFailed /\ sweep[j].mail.sent
        /\ overdue > BatchSize /\ sweep[j].total = overdue

\* the sweep job is kept or deleted like every other job (see C14)
SweepJobRetention ==
    \A j \in DOMAIN jobs :
        /\ (jobs[j].state = "failed") => ~jobs[j].removed
        /\ (jobs[j].state = "completed") => jobs[j].removed

(***************************************************************************)
(* Properties of the scheduler, of repeated sweeps and of the worker pool  *)
(***************************************************************************)
\* the task ids sweep job j has called sendMail for, and those whose sendMail
\* returned
Called(j)  == {outbox[j][m].id : m \in DOMAIN outbox[j]}
Emailed(j) == {outbox[j][m].id : m \in {x \in DOMAIN outbox[j] : outbox[j][x].sent}}

\* C21: sweeps that ran to their end on the same data, with the same outcome
\* of sendMail per task, have emailed the same set of task ids (and called
\* sendMail for the same ids in the same order): the set is the rows whose
\* user has an email and whose sendMail returns, whatever sweeps ran before.
C21_SweepIdempotent ==
    \A j \in DOMAIN outbox :
        (jobs[j].state = "completed") =>
            /\ Emailed(j) = {i \in 1..overdue :
                                users[i].email /\ users[i].deliverable}
            /\ Called(j) = {i \in 1..overdue : users[i].email}
            /\ \A k \in DOMAIN outbox :
                   (jobs[k].state = "completed") =>
                       (Emailed(k) = Emailed(j) /\ outbox[k] = outbox[j])

\* C21 witness: two sweeps in succession have both returned, on rows of which
\* one was emailed, one has no email and one has a sendMail that throws.
C21_Witness ==
    \E j, k \in DOMAIN outbox :
        /\ j < k
        /\ jobs[j].state = "completed" /\ jobs[k].state = "completed"
        /\ Emailed(k) # {} /\ Called(k) # Emailed(k)
        /\ Called(k) # 1..overdue

\* C22: the sweep handler only reads the store and sends mails: no step of a
\* running sweep, whether the sweep goes on, returns or fails, changes a task
\* or anything else the store holds, and none adds a job to the queue or
\* touches another job.
C22_SweepReadsOnly ==
    [][\A j \in DOMAIN jobs :
          (/\ jobs[j].name = "overdue-tasks-notification"
           /\ jobs[j].state = "active") =>
              /\ tasks' = tasks /\ nextId' = nextId /\ committed' = committed
              /\ overdue' = overdue /\ rows' = rows /\ users' = users
              /\ Len(jobs') = Len(jobs)
              /\ \A k \in DOMAIN jobs : k # j => jobs'[k] = jobs[k]
              /\ jobs'[j].state \in {"active", "completed", "failed"}
              /\ calls' = calls]_vars

\* C22 witness: one sweep has returned after mailing over more than a page of
\* rows, the store still holds its pending task and the queue no other job.
C22_Witness ==
    \E j \in DOMAIN sweep :
        /\ sweep[j].returned /\ sweep[j].total > BatchSize
        /\ sweep[j].mail.sent
        /\ tasks = <<[status |-> "pending", userId |-> "u1"]>>
        /\ Len(jobs) = 1 /\ calls = <<>>

\* C23: a tick whose add succeeds adds exactly one job, named
\* 'overdue-tasks-notification', that names no task and no status and has
\* attempts = 1; that job is executed at most once: its attempt is counted
\* once, a failing attempt makes it failed for good, it is never delayed for a
\* retry and, once completed or failed, never runs again.
C23_SweepJobOnce ==
    [][/\ (Len(jobs') # Len(jobs)) =>
             /\ Len(jobs') = Len(jobs) + 1
             /\ \A k \in DOMAIN jobs : jobs'[k] = jobs[k]
             /\ LET job == jobs'[Len(jobs')]
                IN  /\ job.name = "overdue-tasks-notification"
                    /\ job.taskId = NoId /\ job.status = ""
                    /\ job.maxAttempts = 1 /\ job.attemptsMade = 0
                    /\ job.state = "waiting"
       /\ \A j \in DOMAIN jobs :
             (jobs[j].name = "overdue-tasks-notification") =>
                 /\ jobs'[j].attemptsMade <= 1
                 /\ jobs'[j].state # "delayed"
                 /\ (jobs[j].state = "active" /\ jobs'[j].state # "active") =>
                        /\ jobs'[j].state \in {"completed", "failed"}
                        /\ jobs'[j].attemptsMade = 1
                 /\ (jobs[j].state \in {"completed", "failed"}) =>
                        jobs'[j] = jobs[j]]_vars

\* C23 witness: the job of a tick has failed in its one attempt, on a store
\* with overdue rows, and is kept as failed.
C23_Witness ==
    \E j \in DOMAIN jobs :
        /\ jobs[j].name = "overdue-tasks-notification"
        /\ jobs[j].state = "failed" /\ jobs[j].attemptsMade = 1
        /\ jobs[j].error = "Error" /\ overdue > BatchSize

\* C24: a rejected add inside a tick is caught: every run of
\* checkOverdueTasks returns normally, a run whose add was rejected has added
\* no job, every other run has added exactly one, so the queue holds one job
\* per successful tick whatever failed before; and after a failed tick the
\* next tick can take place as after a successful one.
C24_TickFailureCaught ==
    /\ \A c \in DOMAIN calls :
           (calls[c].op = "tick") =>
               /\ calls[c].result = "ok"
               /\ (calls[c].failedAt = "add") => JobsOf(c) = {}
               /\ (calls[c].failedAt # "add") => Cardinality(JobsOf(c)) = 1
    /\ Len(jobs) = Cardinality({c \in DOMAIN calls :
                         calls[c].op = "tick" /\ calls[c].failedAt # "add"})
    /\ (/\ calls # <<>> /\ calls[Len(calls)].failedAt = "add"
        /\ Len(calls) <= MaxCalls
        /\ \A j \in DOMAIN jobs : jobs[j].state \in {"completed", "failed"}) =>
           ENABLED ScheduledTick

\* C24 witness: a tick whose add was rejected was followed by a tick that
\* added its job, and the sweep of that job has returned.
C24_Witness ==
    \E c, d \in DOMAIN calls :
        /\ c < d
        /\ calls[c].op = "tick" /\ calls[c].failedAt = "add"
        /\ calls[c].result = "ok"
        /\ calls[d].failedAt = "none"
        /\ \E j \in JobsOf(d) : jobs[j].state = "completed"

\* C25: at most 5 jobs are in the hands of handlers of the worker at the same
\* time, however many jobs wait.
C25_AtMostFiveActive ==
    Cardinality(Active) <= 5

\* C25 witness: a job that had to wait for a slot has taken the slot of a job
\* that ended, and five jobs are being executed again.
C25_Witness ==
    /\ Cardinality(Active) = 5
    /\ \E j \in DOMAIN jobs : j > 5 /\ jobs[j].state = "saving"
    /\ \E j \in DOMAIN jobs : jobs[j].state = "failed"

(***************************************************************************)
(* Properties of the producers and the worker together                     *)
(***************************************************************************)
\* the tasks of the store that do not belong to user u keep their rows in
\* the step
ForeignTasksKept(u) ==
    \A i \in DOMAIN tasks :
        (tasks[i].userId # u) => (i \in DOMAIN tasks' /\ tasks'[i] = tasks[i])

\* C26: neither the store update of a batchUpdateStatus call of a non-admin
\* caller nor a step of a job that call added changes a task the caller does
\* not own.
C26_BatchKeepsForeignTasks ==
    [][/\ (/\ Len(calls') = Len(calls) + 1
           /\ calls'[Len(calls')].op = "batch"
           /\ ~IsAdmin(calls'[Len(calls')].user)) =>
              ForeignTasksKept(calls'[Len(calls')].user)
       /\ \A j \in DOMAIN jobs :
              (/\ jobs[j].src \in DOMAIN calls
               /\ calls[jobs[j].src].op = "batch"
               /\ ~IsAdmin(calls[jobs[j].src].user)
               /\ jobs'[j] # jobs[j]) =>
                  ForeignTasksKept(calls[jobs[j].src].user)]_vars

\* C27: once batchUpdateStatus has returned its result, none of the adds it
\* issued is still on its way and each of them has put its job into the
\* queue; a batch call of which an add failed has ended with an error.
C27_BatchAddsAwaited ==
    \A c \in DOMAIN calls :
        (calls[c].op = "batch" /\ calls[c].saved) =>
            /\ (calls[c].result = "ok") =>
                   /\ calls[c].pending = {}
                   /\ calls[c].ids \subseteq {jobs[j].taskId : j \in JobsOf(c)}
            /\ (/\ calls[c].pending = {}
                /\ ~(calls[c].ids \subseteq {jobs[j].taskId : j \in JobsOf(c)})) =>
                   calls[c].result = "error"

\* C28: the job of a create is taken by the worker only after the creating
\* transaction has committed: whenever a handler is executing that job, the
\* new task is a committed row of the store.
C28_CreateJobAfterCommit ==
    \A j \in DOMAIN jobs :
        (/\ jobs[j].src \in DOMAIN calls
         /\ calls[jobs[j].src].op = "create"
         /\ jobs[j].state \in {"active", "saving"}) =>
            jobs[j].taskId \in committed

(***************************************************************************)
(* Properties of the sweep on a table that changes while it runs           *)
(***************************************************************************)
\* the ids of the rows in the pages sweep job j has fetched
FetchedIds(j) ==
    UNION {{RowAt(overdue, sweep[j].fetched[i].view, p) :
                p \in sweep[j].fetched[i].first ..
                      (sweep[j].fetched[i].first + sweep[j].fetched[i].count - 1)} :
           i \in DOMAIN sweep[j].fetched}

\* C29: a sweep that returned has had every task in one of its pages that
\* matched the overdue filter from its start to its end, whatever rows were
\* created or deleted meanwhile (the rows that matched at the start and have
\* not left the set are such tasks).
C29_ContinuousRowsFetched ==
    \A j \in DOMAIN sweep :
        sweep[j].returned =>
            ((1..overdue) \ rows.removed) \subseteq FetchedIds(j)

\* C30: within one execution of the sweep sendMail is called at most once per
\* task id, whatever rows were created or deleted meanwhile.
C30_MailOncePerTask ==
    \A j \in DOMAIN outbox :
        \A a, b \in DOMAIN outbox[j] :
            (a # b) => outbox[j][a].id # outbox[j][b].id

(***************************************************************************)
(* Properties of the handlers on payloads and names of any kind            *)
(***************************************************************************)
\* C31: a 'task-status-update' job whose payload has no taskId or no status
\* fails with an UnrecoverableError before any store call: its one attempt
\* ends it as failed, it never holds a row read from the store, it is never
\* delayed for a retry, and no step of it changes the store.
C31_MissingFieldUnrecoverable ==
    [][\A j \in DOMAIN jobs :
          (/\ jobs[j].name = "task-status-update"
           /\ (jobs[j].taskId = NoId \/ jobs[j].status = "")) =>
              /\ jobs'[j].state \notin {"saving", "delayed", "completed"}
              /\ jobs'[j].task = NoTask
              /\ (jobs[j].state = "active" /\ jobs'[j] # jobs[j]) =>
                     /\ jobs'[j].state = "failed"
                     /\ jobs'[j].error = "UnrecoverableError"
                     /\ jobs'[j].attemptsMade = 1
                     /\ ~jobs'[j].removed
              /\ (jobs[j].state = "failed") => jobs'[j] = jobs[j]
              /\ (jobs'[j] # jobs[j]) =>
                     (tasks' = tasks /\ nextId' = nextId /\ committed' = committed)]_vars

\* C31 witness: a job that names a status of the enum but no task has failed
\* after one attempt, the store as it was.
C31_Witness ==
    \E j \in DOMAIN jobs :
        /\ jobs[j].name = "task-status-update"
        /\ jobs[j].taskId = NoId /\ jobs[j].status = "completed"
        /\ jobs[j].state = "failed" /\ jobs[j].attemptsMade = 1
        /\ jobs[j].error = "UnrecoverableError"
        /\ tasks = <<[status |-> "pending", userId |-> "u1"]>>

\* C32: an error of the store while the sweep reads a page fails the attempt
\* as a recoverable one: the job is delayed for a retry while it has attempts
\* left and fails for good, with the class of a plain Error, when it has none.
\* Every attempt starts with offset 0 and a processed count of 0 and asks for
\* page 1 first, and the sendMail calls made before a failure stay made.
C32_FetchErrorRecoverable ==
    [][\A j \in DOMAIN jobs :
          (jobs[j].name = "overdue-tasks-notification") =>
              /\ (jobs[j].state = "active"
                     /\ jobs'[j].state \notin {"active", "completed"}) =>
                     /\ jobs'[j].attemptsMade = jobs[j].attemptsMade + 1
                     /\ IF jobs[j].attemptsMade + 1 < jobs[j].maxAttempts
                        THEN jobs'[j].state = "delayed"
                        ELSE jobs'[j].state = "failed" /\ jobs'[j].error = "Error"
              /\ (jobs[j].state = "waiting" /\ jobs'[j].state = "active") =>
                     /\ sweep'[j].offset = 0 /\ sweep'[j].total = 0
                     /\ sweep'[j].fetched = <<>>
                     /\ sweep'[j].idx = sweep'[j].count
              /\ (/\ jobs[j].state = "active" /\ sweep[j].fetched = <<>>
                  /\ j \in DOMAIN sweep' /\ sweep'[j].fetched # <<>>) =>
                     /\ sweep'[j].fetched[1].page = 1
                     /\ sweep'[j].fetched[1].first = 1
              /\ (j \in DOMAIN outbox) =>
                     /\ j \in DOMAIN outbox'
                     /\ Len(outbox'[j]) >= Len(outbox[j])
                     /\ SubSeq(outbox'[j], 1, Len(outbox[j])) = outbox[j]]_vars

\* C32 witness: the first attempt of a sweep job mailed a page and failed at
\* the fetch of the next; the second attempt began at page 1 and returned
\* with every row counted, the mails of the first attempt still made.
C32_Witness ==
    \E j \in DOMAIN sweep :
        /\ jobs[j].state = "completed" /\ jobs[j].attemptsMade = 2
        /\ sweep[j].returned /\ sweep[j].total = overdue
        /\ sweep[j].fetched[1].page = 1
        /\ Len(outbox[j]) = BatchSize + overdue

\* C33: the step of the sweep for a task whose user has no email calls
\* sendMail zero times, raises nothing (the job goes on or returns, no mail
\* failure is noted), counts the task as processed, and the next task of the
\* page is the next one gone through; a sweep that returned has counted every
\* row and has called sendMail for none of the rows without email.
C33_NoEmailSkipped ==
    [][\A j \in DOMAIN sweep :
          (/\ jobs[j].state = "active" /\ sweep[j].idx < sweep[j].count
           /\ ~users[RowAt(overdue, sweep[j].view,
                            sweep[j].first + sweep[j].idx)].email
           /\ sweep' # sweep) =>
              /\ outbox' = outbox
              /\ jobs'[j].state \in {"active", "completed"}
              /\ j \in DOMAIN sweep'
              /\ ~sweep'[j].mail.hasEmail /\ ~sweep'[j].mail.sent
              /\ sweep'[j].mailFailed = sweep[j].mailFailed
              /\ Handled(sweep'[j]) = Handled(sweep[j]) + 1
              /\ (sweep'[j].returned) =>
                     /\ sweep'[j].total = overdue
                     /\ \A i \in 1..overdue :
                            ~users[i].email => i \notin Called(j)]_vars

\* C33 witness: a sweep has returned with all three rows counted on a store
\* whose second row has no email; sendMail was called for the rows before
\* and after it and not for it.
C33_Witness ==
    \E j \in DOMAIN sweep :
        /\ sweep[j].returned /\ jobs[j].state = "completed"
        /\ overdue = 3 /\ sweep[j].total = 3
        /\ users[1].email /\ ~users[2].email /\ users[3].email
        /\ Called(j) = {1, 3}

\* C38: a job whose name is neither 'task-status-update' nor
\* 'overdue-tasks-notification' fails with an UnrecoverableError in process:
\* no handler runs for it (it never holds a row of the store, never has
\* sweep locals), its one attempt ends it as failed and kept, it is never
\* delayed for a retry, and no step of it changes the store or sends a mail.
C38_UnknownNameUnrecoverable ==
    [][\A j \in DOMAIN jobs :
          (jobs[j].name \notin {"task-status-update",
                                "overdue-tasks-notification"}) =>
              /\ jobs'[j].state \in {"waiting", "active", "failed"}
              /\ jobs'[j].task = NoTask
              /\ j \notin DOMAIN sweep'
              /\ (jobs[j].state = "active" /\ jobs'[j] # jobs[j]) =>
                     /\ jobs'[j].state = "failed"
                     /\ jobs'[j].error = "UnrecoverableError"
                     /\ jobs'[j].attemptsMade = 1
                     /\ ~jobs'[j].removed
              /\ (jobs[j].state = "failed") => jobs'[j] = jobs[j]
              /\ (jobs'[j] # jobs[j]) =>
                     /\ tasks' = tasks /\ nextId' = nextId
                     /\ committed' = committed /\ outbox' = outbox]_vars

\* C38 witness: a job of an unknown name whose payload would be a valid
\* status update of the stored task has failed after one attempt, the task
\* still pending.
C38_Witness ==
    \E j \in DOMAIN jobs :
        /\ jobs[j].name = "unknown-job"
        /\ jobs[j].taskId = 1 /\ jobs[j].status = "completed"
        /\ jobs[j].state = "failed" /\ jobs[j].attemptsMade = 1
        /\ jobs[j].error = "UnrecoverableError"
        /\ tasks = <<[status |-> "pending", userId |-> "u1"]>>

\* C39: whatever the payloads of the jobs the worker is given, the status of
\* every stored task is a member of the TaskStatus enum, and so is the
\* status of every row a handler holds for its save.
C39_StoredStatusInEnum ==
    /\ \A i \in DOMAIN tasks : tasks[i].status \in TaskStatus
    /\ \A j \in DOMAIN jobs :
           jobs[j].state = "saving" =>
              (jobs[j].task.status \in TaskStatus /\ jobs[j].status \in TaskStatus)

\* C39 witness: a job that names the stored task and a status outside the
\* enum has been executed and has failed; the task has kept its status.
C39_Witness ==
    \E j \in DOMAIN jobs :
        /\ jobs[j].name = "task-status-update"
        /\ jobs[j].taskId = 1 /\ jobs[j].status = "archived"
        /\ jobs[j].state = "failed" /\ jobs[j].attemptsMade = 1
        /\ 1 \in DOMAIN tasks /\ tasks[1].status = "pending"

(***************************************************************************)
(* Properties of the timer and of the slots                                *)
(***************************************************************************)
\* C34: the tick only enqueues.  A run of checkOverdueTasks can take place
\* in every state, also while all five slots of the worker are taken; it
\* returns normally, it adds at most one job, which waits in the queue and
\* has no handler running for it, and it changes neither a job that is there
\* nor the locals of a running sweep nor the store nor the mails sent.
C34_TickOnlyEnqueues ==
    /\ []((Len(calls) <= MaxCalls) => ENABLED TickAtAnyTime)
    /\ [][(Len(calls') = Len(calls) + 1) =>
             /\ calls'[Len(calls')].op = "tick"
             /\ calls'[Len(calls')].result = "ok"
             /\ tasks' = tasks /\ nextId' = nextId /\ committed' = committed
             /\ outbox' = outbox /\ sweep' = sweep
             /\ \A k \in DOMAIN jobs : jobs'[k] = jobs[k]
             /\ Len(jobs') \in {Len(jobs), Len(jobs) + 1}
             /\ (Len(jobs') = Len(jobs) + 1) =>
                    /\ jobs'[Len(jobs')].name = "overdue-tasks-notification"
                    /\ jobs'[Len(jobs')].state = "waiting"
                    /\ jobs'[Len(jobs')].attemptsMade = 0
                    /\ Len(jobs') \notin DOMAIN sweep']_vars

\* C34 witness: two ticks have run and added their jobs while the five slots
\* of the worker stayed taken; both jobs wait.
C34_Witness ==
    /\ Cardinality(Active) = 5
    /\ Len(calls) = 2 /\ Len(jobs) = 7
    /\ \A c \in DOMAIN calls : calls[c].op = "tick" /\ calls[c].result = "ok"
    /\ jobs[6].state = "waiting" /\ jobs[7].state = "waiting"
    /\ jobs[7].src = 2

\* C35: a handler that does not return holds its own slot only.  With four
\* of the five slots held by handlers that never take another step,
\* every job that waits is taken by the worker and reaches a terminal state,
\* an attempt of it counted, provided the worker keeps taking jobs while a
\* slot is free and the calls of the other handlers return.
C35_OtherJobsRun ==
    \A j \in Concurrency..(Concurrency + MaxJobs) :
        [](j \in DOMAIN jobs =>
              <>(/\ j \in DOMAIN jobs
                 /\ jobs[j].state \in {"completed", "failed"}
                 /\ jobs[j].attemptsMade >= 1))

\* C35 witness: the four handlers have still not returned, and two jobs
\* that waited behind them have been run through the one slot left, the
\* second of them to completion after a retry.
C35_Witness ==
    /\ \A i \in Stalled : jobs[i].state = "active"
    /\ Len(jobs) = Concurrency + 1
    /\ jobs[Concurrency].state \in {"completed", "failed"}
    /\ jobs[Concurrency + 1].state = "completed"
    /\ jobs[Concurrency + 1].attemptsMade > 1

(***************************************************************************)
(* Properties of the status handler run more than once                     *)
(***************************************************************************)
\* C37: the status handler is idempotent.  Of two executions of one job with
\* no other writer of the store, the first that returns leaves the task with
\* the status of the payload, and from then on no step of the other, be it
\* before it, beside it or after it, changes the store: the store after both
\* is the store after one.
C37_StatusUpdateIdempotent ==
    [][(\E k \in DOMAIN jobs : jobs[k].state = "completed") =>
          /\ tasks' = tasks
          /\ \A k \in DOMAIN jobs :
                 jobs[k].state = "completed" =>
                    tasks[jobs[k].taskId].status = jobs[k].status]_vars

\* C37 witness: both executions have returned, the second after a failed
\* attempt, and the task has the status of the payload.
C37_Witness ==
    /\ Len(jobs) = 2 /\ jobs[1].name = jobs[2].name
    /\ jobs[1].taskId = jobs[2].taskId /\ jobs[1].status = jobs[2].status
    /\ jobs[1].state = "completed" /\ jobs[2].state = "completed"
    /\ jobs[2].attemptsMade > 1
    /\ tasks[1].status = "in_progress" /\ jobs[1].status = "in_progress"

====
